---- MODULE Spec2Model ----
(***************************************************************************)
(* Reference resolver and search engine of the Quran Verse Explorer        *)
(* (src/code.py): DataLoader, QuranSearchApp.parse_reference and           *)
(* QuranSearchApp.show_verses.                                             *)
(*                                                                         *)
(* Python strings that the code parses or formats (the reference field,    *)
(* surah and ayah keys, keywords, verse texts) are sequences of one-       *)
(* character strings, so that int(), str(), strip() and the regular        *)
(* expressions are computed and not assumed.  Translation names are only   *)
(* compared for equality and stay TLA+ strings.                            *)
(***************************************************************************)
EXTENDS Integers, Sequences, FiniteSets, TLC

\* ------------------------------------------------------------------------
\* Bounds of the model
\* ------------------------------------------------------------------------

\* longest reference text that is enumerated character by character
MaxLen == 5

\* the number of GUI events of a session
MaxEvents == 2

\* the length of the keywords and of the texts given to the matcher
MaxText == 3

\* the number of steps from a first verse
MaxSteps == 2

\* ------------------------------------------------------------------------
\* Python string primitives
\* ------------------------------------------------------------------------

None == "None"

Digits == {"0", "1", "2", "3", "4", "5", "6", "7", "8", "9"}

Whitespace == {" ", "\n", "\t", "\r", "\f"}

DigitVal(c) ==
    CASE c = "0" -> 0 [] c = "1" -> 1 [] c = "2" -> 2 [] c = "3" -> 3
      [] c = "4" -> 4 [] c = "5" -> 5 [] c = "6" -> 6 [] c = "7" -> 7
      [] c = "8" -> 8 [] c = "9" -> 9

DigitChar(d) ==
    CASE d = 0 -> "0" [] d = 1 -> "1" [] d = 2 -> "2" [] d = 3 -> "3"
      [] d = 4 -> "4" [] d = 5 -> "5" [] d = 6 -> "6" [] d = 7 -> "7"
      [] d = 8 -> "8" [] d = 9 -> "9"

\* int(s) for a non-empty string of digits: leading zeros are dropped
RECURSIVE int(_)
int(s) ==
    IF Len(s) = 0 THEN 0
    ELSE 10 * int(SubSeq(s, 1, Len(s) - 1)) + DigitVal(s[Len(s)])

\* str(n) for n >= 0: the canonical decimal form, no leading zeros
RECURSIVE str(_)
str(n) ==
    IF n < 10 THEN <<DigitChar(n)>>
    ELSE str(n \div 10) \o <<DigitChar(n % 10)>>

\* s.strip()
RECURSIVE strip(_)
strip(s) ==
    IF Len(s) = 0 THEN s
    ELSE IF s[1] \in Whitespace THEN strip(Tail(s))
    ELSE IF s[Len(s)] \in Whitespace THEN strip(SubSeq(s, 1, Len(s) - 1))
    ELSE s

\* max(...) of a non-empty set of integers
SetMax(S) == CHOOSE m \in S : \A x \in S : x <= m

\* ------------------------------------------------------------------------
\* The source document (ia_all.xml) and DataLoader
\* ------------------------------------------------------------------------

\* number of surahs of the document; the code relies on it in get_next_verse
\* and in the fallback reference "1-114"
LastSurah == 114

\* Rendition/@Source values in order of first encounter
XmlTranslations == <<"Arabic", "Muhammad Asad", "Pickthall">>

\* verses per surah of the fixture document (contiguous from 1)
XmlAyahCount(n) ==
    CASE n = 1 -> 3
      [] n = 2 -> 4
      [] OTHER -> (n % 2) + 1

\* the Rendition texts of the fixture document; <<"-">> marks a rendition
\* that the document does not contain (the matrix is sparse)
Absent == <<"-">>

XmlText(n, a, t) ==
    CASE n = 1 /\ a = 1 ->
           (CASE t = "Arabic" -> <<"a", "b">>
              [] t = "Muhammad Asad" -> <<"a", "b", " ", "b", "a">>
              [] OTHER -> <<"b">>)
      [] n = 1 /\ a = 2 ->
           (CASE t = "Arabic" -> <<"b", "a">>
              [] t = "Muhammad Asad" -> Absent
              [] OTHER -> <<"A", "b", " ", "a">>)
      [] n = 1 /\ a = 3 ->
           (CASE t = "Pickthall" -> <<"c", "a", " ", "b">>
              [] OTHER -> Absent)
      [] n = 2 /\ a = 1 ->
           (CASE t = "Arabic" -> <<"a">>
              [] t = "Muhammad Asad" -> <<"b", "a", "b">>
              [] OTHER -> <<"a", " ", "a", "b">>)
      [] n = 2 /\ a = 2 ->
           (CASE t = "Arabic" -> <<"c">>
              [] t = "Muhammad Asad" -> <<"b", " ", "a", "b">>
              [] OTHER -> Absent)
      [] n = 2 /\ a = 3 ->
           (CASE t = "Arabic" -> Absent
              [] t = "Muhammad Asad" -> <<"a", "b", "a">>
              [] OTHER -> <<"B", "a">>)
      [] OTHER ->
           (CASE t = "Arabic" -> <<"a">>
              [] t = "Muhammad Asad" -> <<"b">>
              [] OTHER -> Absent)

\* a decimal number as the document writes it: digits, no leading zero
IsDecimal(s) ==
    /\ Len(s) > 0
    /\ \A i \in 1..Len(s) : s[i] \in Digits
    /\ Len(s) = 1 \/ s[1] # "0"

\* s is the SurahNumber of a Surah element
IsXmlSurah(s) == IsDecimal(s) /\ int(s) >= 1 /\ int(s) <= LastSurah

\* a is the AyahNumber of an Ayah element of surah s
IsXmlAyah(s, a) ==
    IsXmlSurah(s) /\ IsDecimal(a) /\ int(a) >= 1 /\ int(a) <= XmlAyahCount(int(s))

XmlAyahKeys(surah) == {str(a) : a \in 1..XmlAyahCount(int(surah))}

\* the renditions of one Ayah element: Source -> text
XmlRenditions(surah, ayah) ==
    LET has == {XmlTranslations[i] : i \in
                  {j \in 1..Len(XmlTranslations) :
                     XmlText(int(surah), int(ayah), XmlTranslations[j]) # Absent}}
    IN  [t \in has |-> XmlText(int(surah), int(ayah), t)]

VARIABLES
    dl_notes,          \* what DataLoader.load_notes merged from notes.xml:
                       \* [loaded: the file was read, notes: <<surah, ayah>> -> text]
    last_reference,    \* the reference field (ref_entry, textvariable last_reference)
    resolved,          \* the outcome of the last resolution
    keyword_var,       \* the keyword field
    translation_vars,  \* the translations whose checkbox is set
    broad_search_var,  \* "Broad Search" checkbox
    broad_results_var, \* "Broad Results" checkbox
    notes_var,         \* "Notes" checkbox
    notes,             \* self.notes: "surah.ayah" -> note text
    notes_pane,        \* self.notes_text is a widget (the notes pane is open)
    notes_text,        \* the text in the notes pane
    last_ref,          \* self.last_ref: "surah.ayah", or <<>> for None
    search_results,    \* self.search_results: [list: FALSE] for None
    result_text,       \* the verses written to the result pane, in order
    status_var,        \* the status line
    messagebox,        \* the dialogs the last event showed, in order
    notes_file,        \* notes.xml: [exists, notes: <<surah, ayah>> -> text]
    event,             \* the GUI event handled last
    events,            \* how many GUI events the session has handled
    verse_text,        \* a translation text given to the compiled keyword
    load,              \* the start-up: [thread: where load_data is, after: the
                       \* callbacks given to root.after, widgets: what the
                       \* window holds]
    trail,             \* the verses that get_next_verse and get_previous_verse
                       \* returned, from a first verse on: [op, at]
    satisfied          \* whether verse_text satisfies the keyword: "True", "False"

gui == <<last_reference, keyword_var, translation_vars, broad_search_var,
         broad_results_var, notes_var, notes, notes_pane, notes_text, last_ref,
         search_results, result_text, status_var, messagebox, notes_file>>

vars == <<dl_notes, load, resolved, event, events, verse_text, satisfied, trail, gui>>

\* <<surah, ayah>> keys merged from notes.xml
NoteKeys == DOMAIN dl_notes.notes

\* the one element of a singleton set; {F(x) : x \in {e}} evaluates e once
Only(S) == CHOOSE x \in S : TRUE

\* surah in self.data_loader.surahs (the keys of verses are the same)
in_surahs(s) == IsXmlSurah(s) \/ \E k \in NoteKeys : k[1] = s

\* self.data_loader.surahs[s]: the ayah keys of surah s
surahs(s) ==
    (IF IsXmlSurah(s) THEN XmlAyahKeys(s) ELSE {})
      \cup {k[2] : k \in {q \in NoteKeys : q[1] = s}}

\* DataLoader.translations
translations ==
    IF dl_notes.loaded THEN <<"User Notes">> \o XmlTranslations
    ELSE XmlTranslations

\* self.data_loader.ayah_counts[s], computed at the end of parse_xml
ayah_counts(s) == XmlAyahCount(int(s))

\* ayah in self.data_loader.verses[s]
in_verses(s, a) == IsXmlAyah(s, a) \/ <<s, a>> \in NoteKeys

\* self.data_loader.verses[s][a]: translation -> text
verses(s, a) ==
    LET xml == IF IsXmlAyah(s, a) THEN XmlRenditions(s, a) ELSE <<>>
    IN  IF <<s, a>> \in NoteKeys
        THEN [t \in DOMAIN xml \cup {"User Notes"} |->
                IF t = "User Notes" THEN dl_notes.notes[<<s, a>>] ELSE xml[t]]
        ELSE xml

\* ------------------------------------------------------------------------
\* QuranSearchApp.parse_reference
\* ------------------------------------------------------------------------

InvalidReference == "Invalid reference format"
ChapterNotFound == "Surah not found"

\* the maximal digit runs and the single other characters of s
RECURSIVE Tokens(_)
Tokens(s) ==
    IF Len(s) = 0 THEN <<>>
    ELSE LET rest == Tokens(Tail(s))
         IN  IF s[1] \in Digits /\ Len(s) > 1 /\ s[2] \in Digits
             THEN <<(<<s[1]>> \o rest[1])>> \o Tail(rest)
             ELSE <<(<<s[1]>>)>> \o rest

\* "$" matches at the end of the string and before one trailing newline
Core(ref) ==
    IF Len(ref) > 0 /\ ref[Len(ref)] = "\n" THEN SubSeq(ref, 1, Len(ref) - 1)
    ELSE ref

\* "d" for a \d+ run, the character itself otherwise
Shape(toks) ==
    [i \in 1..Len(toks) |-> IF toks[i][1] \in Digits THEN "d" ELSE toks[i][1]]

single_surah == <<"d">>
surah_range == <<"d", "-", "d">>
verse_single == <<"d", ".", "d">>
verse_to_ayah == <<"d", ".", "d", "-", "d">>
surah_to_verse == <<"d", "-", "d", ".", "d">>
verse_range == <<"d", ".", "d", "-", "d", ".", "d">>

\* mutant: the pattern is not anchored at the end
re_match_prefix(pattern, ref) ==
    LET sh == Shape(Tokens(Core(ref)))
    IN  Len(sh) >= Len(pattern) /\ SubSeq(sh, 1, Len(pattern)) = pattern

\* re.match(pattern, ref) for the six anchored patterns
re_match(pattern, ref) == Shape(Tokens(Core(ref))) = pattern

Range(ss, sa, es, ea) ==
    [error |-> None, surah_start |-> ss, start_ayah |-> sa,
     surah_end |-> es, end_ayah |-> ea]

Raise(kind) ==
    [error |-> kind, surah_start |-> <<>>, start_ayah |-> <<>>,
     surah_end |-> <<>>, end_ayah |-> <<>>]

\* no resolution has been made yet
Pending == Raise("pending")

\* mutant: the number of verses instead of the highest verse number
LastAyah_len(s) ==
    IF in_surahs(s) THEN str(Cardinality(surahs(s))) ELSE str(0)

\* str(max(int(ayah) for ayah in surahs.get(s, set())) if s in surahs else 0)
LastAyah(s) ==
    IF in_surahs(s) THEN str(SetMax({int(a) : a \in surahs(s)}))
    ELSE str(0)

\* form 1, "N": the whole surah; surah_start is the matched text itself
WholeSurah(ref) == Range(ref, <<"1">>, ref, LastAyah(ref))

\* mutant: the last verse of the start surah
SurahRange_start(n, m) == Range(n, <<"1">>, m, LastAyah(n))

\* form 2, "N-M": whole surahs N through M
SurahRange(n, m) == Range(n, <<"1">>, m, LastAyah(m))

\* mutant: verse 0 is not reinterpreted
VerseSingle_nozero(n, v) == Range(n, v, n, v)

\* form 3, "N.V": one verse; "N.0" is the whole surah N
VerseSingle(n, v) ==
    IF v = <<"0">>
    THEN IF in_surahs(n)
         THEN Range(n, <<"1">>, n, str(SetMax({int(a) : a \in surahs(n)})))
         ELSE Raise(ChapterNotFound)
    ELSE Range(n, v, n, v)

\* Python's <= on two strings of digits (lexicographic)
RECURSIVE StrLeq(_, _)
StrLeq(a, b) ==
    IF Len(a) = 0 THEN TRUE
    ELSE IF Len(b) = 0 THEN FALSE
    ELSE IF a[1] # b[1] THEN DigitVal(a[1]) < DigitVal(b[1])
    ELSE StrLeq(Tail(a), Tail(b))

\* mutant: the groups are compared as text, without int()
EndIsAyah_text(end_value, surah_start) == StrLeq(end_value, surah_start)

\* mutant: an E equal to N is taken for a surah
EndIsAyah_strict(end_value, surah_start) == int(end_value) < int(surah_start)

\* the comparison that decides what E of "N.V-E" means
EndIsAyah(end_value, surah_start) == int(end_value) <= int(surah_start)

\* form 4, "N.V-E": E is an ending ayah of N or an ending surah
VerseToAyah(n, v, e) ==
    IF EndIsAyah(e, n) THEN Range(n, v, n, e)
    ELSE Range(n, v, e, LastAyah(e))

\* form 5, "N-M.V": surah N from its first verse through verse V of M
SurahToVerse(n, m, v) == Range(n, <<"1">>, m, v)

\* mutant: the endpoints are put in ascending order
VerseRange_sorted(n, v, m, w) ==
    IF int(n) < int(m) \/ (int(n) = int(m) /\ int(v) <= int(w))
    THEN Range(n, v, m, w) ELSE Range(m, w, n, v)

\* form 6, "N.V-M.W": the four groups as matched
VerseRange(n, v, m, w) == Range(n, v, m, w)

\* mutant: only the start surah is tested
SurahsExist_start(ss, es) == in_surahs(ss)

\* the final membership test on both endpoint surahs
SurahsExist(ss, es) == in_surahs(ss) /\ in_surahs(es)

Checked(r) ==
    IF r.error # None THEN r
    ELSE IF SurahsExist(r.surah_start, r.surah_end) THEN r
    ELSE Raise(ChapterNotFound)

parse_reference(ref) ==
    LET g == Tokens(Core(ref))
    IN  IF re_match(single_surah, ref) THEN Checked(WholeSurah(ref))
        ELSE IF re_match(surah_range, ref) THEN Checked(SurahRange(g[1], g[3]))
        ELSE IF re_match(verse_single, ref) THEN Checked(VerseSingle(g[1], g[3]))
        ELSE IF re_match(verse_to_ayah, ref)
          THEN Checked(VerseToAyah(g[1], g[3], g[5]))
        ELSE IF re_match(surah_to_verse, ref)
          THEN Checked(SurahToVerse(g[1], g[3], g[5]))
        ELSE IF re_match(verse_range, ref)
          THEN Checked(VerseRange(g[1], g[3], g[5], g[7]))
        ELSE Raise(InvalidReference)

\* show_verses resolves the trimmed text of the reference field
resolve(text) == parse_reference(strip(text))

\* ------------------------------------------------------------------------
\* Keyword matching (show_verses, the compiled patterns)
\* ------------------------------------------------------------------------

UpperCase ==
    <<"A", "B", "C", "D", "E", "F", "G", "H", "I", "J", "K", "L", "M",
      "N", "O", "P", "Q", "R", "S", "T", "U", "V", "W", "X", "Y", "Z">>

LowerCase ==
    <<"a", "b", "c", "d", "e", "f", "g", "h", "i", "j", "k", "l", "m",
      "n", "o", "p", "q", "r", "s", "t", "u", "v", "w", "x", "y", "z">>

\* c.lower()
LowerChar(c) ==
    IF \E i \in 1..Len(UpperCase) : UpperCase[i] = c
    THEN LowerCase[CHOOSE i \in 1..Len(UpperCase) : UpperCase[i] = c]
    ELSE c

\* s.lower()
lower(s) == [i \in 1..Len(s) |-> LowerChar(s[i])]

\* \w
IsWordChar(c) ==
    \/ c \in Digits
    \/ c = "_"
    \/ \E i \in 1..Len(LowerCase) : LowerCase[i] = c \/ UpperCase[i] = c

\* s.split(): the maximal runs of non-whitespace characters
RECURSIVE split(_)
split(s) ==
    IF Len(s) = 0 THEN <<>>
    ELSE IF s[1] \in Whitespace THEN split(Tail(s))
    ELSE LET rest == split(Tail(s))
         IN  IF Len(s) > 1 /\ s[2] \notin Whitespace
             THEN <<(<<s[1]>> \o rest[1])>> \o Tail(rest)
             ELSE <<(<<s[1]>>)>> \o rest

\* re.escape(word).replace(r'\*', '.*').replace(r'\?', '.'): one pattern
\* element per character, "*" any run, "?" any one character, else a literal
Wildcards(word) ==
    [i \in 1..Len(word) |->
        IF word[i] = "*" THEN <<"any run", "">>
        ELSE IF word[i] = "?" THEN <<"any one", "">>
        ELSE <<"literal", word[i]>>]

\* the pattern elements match text from position p on (re.IGNORECASE; "."
\* matches no newline)
RECURSIVE MatchAt(_, _, _)
MatchAt(pat, text, p) ==
    IF Len(pat) = 0 THEN TRUE
    ELSE IF pat[1][1] = "any run"
      THEN \E q \in p..(Len(text) + 1) :
             /\ \A k \in p..(q - 1) : text[k] # "\n"
             /\ MatchAt(Tail(pat), text, q)
    ELSE IF pat[1][1] = "any one"
      THEN p <= Len(text) /\ text[p] # "\n" /\ MatchAt(Tail(pat), text, p + 1)
    ELSE /\ p <= Len(text)
         /\ LowerChar(text[p]) = LowerChar(pat[1][2])
         /\ MatchAt(Tail(pat), text, p + 1)

\* \b before position p of text
WordBoundary(text, p) ==
    LET before == p > 1 /\ IsWordChar(text[p - 1])
        after == p <= Len(text) /\ IsWordChar(text[p])
    IN  before # after

\* phrase_pattern.search(text): the phrase occurs anywhere
PhraseSearch(pat, text) == \E p \in 1..(Len(text) + 1) : MatchAt(pat, text, p)

\* the token is searched anywhere, without \b
WordSearch_anywhere(pat, text) == \E p \in 1..(Len(text) + 1) : MatchAt(pat, text, p)

\* re.compile(rf'\b{base}\w*').search(text): the token starts at a word
\* boundary; the trailing \w* matches the empty string as well
WordSearch(pat, text) ==
    \E p \in 1..(Len(text) + 1) : WordBoundary(text, p) /\ MatchAt(pat, text, p)

\* keyword.startswith('"') and keyword.endswith('"')
IsPhrase(keyword) ==
    Len(keyword) > 0 /\ keyword[1] = "\"" /\ keyword[Len(keyword)] = "\""

\* the text satisfies the compiled keyword
Matches(keyword, text) ==
    IF IsPhrase(keyword)
    THEN PhraseSearch(Wildcards(SubSeq(keyword, 2, Len(keyword) - 1)), text)
    ELSE LET words == split(keyword)
         IN  \A i \in 1..Len(words) : WordSearch(Wildcards(words[i]), text)

\* ------------------------------------------------------------------------
\* QuranSearchApp: notes and show_verses
\* ------------------------------------------------------------------------

NoList == [list |-> FALSE, refs |-> <<>>]

\* the mutable fields of the application, as one record
State ==
    [last_reference |-> last_reference, keyword_var |-> keyword_var,
     translation_vars |-> translation_vars, broad_search_var |-> broad_search_var,
     broad_results_var |-> broad_results_var, notes_var |-> notes_var,
     notes |-> notes, notes_pane |-> notes_pane, notes_text |-> notes_text,
     last_ref |-> last_ref, search_results |-> search_results,
     result_text |-> result_text, status_var |-> status_var,
     messagebox |-> messagebox, notes_file |-> notes_file]

\* the fields have the values of st
Is(st) ==
    \E s \in {st} :
        /\ last_reference = s.last_reference
        /\ keyword_var = s.keyword_var
        /\ translation_vars = s.translation_vars
        /\ broad_search_var = s.broad_search_var
        /\ broad_results_var = s.broad_results_var
        /\ notes_var = s.notes_var
        /\ notes = s.notes
        /\ notes_pane = s.notes_pane
        /\ notes_text = s.notes_text
        /\ last_ref = s.last_ref
        /\ search_results = s.search_results
        /\ result_text = s.result_text
        /\ status_var = s.status_var
        /\ messagebox = s.messagebox
        /\ notes_file = s.notes_file

\* the event leaves the fields with the values of st
Becomes(st) ==
    \E s \in {st} :
        /\ last_reference' = s.last_reference
        /\ keyword_var' = s.keyword_var
        /\ translation_vars' = s.translation_vars
        /\ broad_search_var' = s.broad_search_var
        /\ broad_results_var' = s.broad_results_var
        /\ notes_var' = s.notes_var
        /\ notes' = s.notes
        /\ notes_pane' = s.notes_pane
        /\ notes_text' = s.notes_text
        /\ last_ref' = s.last_ref
        /\ search_results' = s.search_results
        /\ result_text' = s.result_text
        /\ status_var' = s.status_var
        /\ messagebox' = s.messagebox
        /\ notes_file' = s.notes_file

\* f"{surah}.{ayah}"
RefOf(surah, ayah) == surah \o <<".">> \o ayah

\* surah, ayah = ref.split(".")
SplitRef(ref) ==
    LET i == CHOOSE k \in 1..Len(ref) : ref[k] = "."
    IN  <<SubSeq(ref, 1, i - 1), SubSeq(ref, i + 1, Len(ref))>>

\* ElementTree._escape_cdata: the text of an element as ET.tostring writes it
RECURSIVE escape_cdata(_)
escape_cdata(text) ==
    IF Len(text) = 0 THEN <<>>
    ELSE (CASE text[1] = "&" -> <<"&", "a", "m", "p", ";">>
            [] text[1] = "<" -> <<"&", "l", "t", ";">>
            [] text[1] = ">" -> <<"&", "g", "t", ";">>
            [] OTHER -> <<text[1]>>) \o escape_cdata(Tail(text))

\* characters that XML 1.0 does not allow: expat rejects the document
\* ("not well-formed (invalid token)")
XmlIllegal == {"\f"}

\* the XML parser's end-of-line handling: "\r\n" and "\r" are read as "\n"
RECURSIVE end_of_line(_)
end_of_line(data) ==
    IF Len(data) = 0 THEN <<>>
    ELSE IF data[1] = "\r"
    THEN <<"\n">> \o end_of_line(IF Len(data) > 1 /\ data[2] = "\n"
                                 THEN Tail(Tail(data)) ELSE Tail(data))
    ELSE <<data[1]>> \o end_of_line(Tail(data))

\* the entity references of character data, read back as characters
RECURSIVE unescape(_)
unescape(data) ==
    LET starts(ref) == Len(data) >= Len(ref) /\ SubSeq(data, 1, Len(ref)) = ref
        rest(ref) == unescape(SubSeq(data, Len(ref) + 1, Len(data)))
    IN  IF Len(data) = 0 THEN <<>>
        ELSE IF starts(<<"&", "a", "m", "p", ";">>)
        THEN <<"&">> \o rest(<<"&", "a", "m", "p", ";">>)
        ELSE IF starts(<<"&", "l", "t", ";">>)
        THEN <<"<">> \o rest(<<"&", "l", "t", ";">>)
        ELSE IF starts(<<"&", "g", "t", ";">>)
        THEN <<">">> \o rest(<<"&", "g", "t", ";">>)
        ELSE <<data[1]>> \o unescape(Tail(data))

\* xml.dom.minidom.parseString(ET.tostring(root)).toprettyxml(): the character
\* data of a Rendition element in notes.xml; the parse has read the line ends
pretty_xml(text) == escape_cdata(end_of_line(text))

\* load_notes: rendition.text.strip()
rendition_text(data) == strip(unescape(end_of_line(data)))

\* save_notes raises xml.parsers.expat.ExpatError at minidom.parseString and
\* writes nothing
save_notes_raises(st) ==
    \E ref \in DOMAIN st.notes :
        \E i \in 1..Len(st.notes[ref]) : st.notes[ref][i] \in XmlIllegal

\* save_notes: nothing is written while self.notes is empty; notes.xml holds
\* one Rendition per note, <<surah, ayah>> -> character data
save_notes(st) ==
    IF DOMAIN st.notes = {} THEN st
    ELSE [st EXCEPT !.notes_file =
            [exists |-> TRUE,
             notes |-> [k \in {SplitRef(ref) : ref \in DOMAIN st.notes} |->
                          pretty_xml(st.notes[RefOf(k[1], k[2])])]]]

\* the note in the pane is stored under last_ref, or removed when it is empty
StoreNote(st) ==
    LET note == strip(st.notes_text)
    IN  IF Len(note) > 0
        THEN [st EXCEPT !.notes =
                [r \in DOMAIN st.notes \cup {st.last_ref} |->
                    IF r = st.last_ref THEN note ELSE st.notes[r]]]
        ELSE [st EXCEPT !.notes = [r \in DOMAIN st.notes \ {st.last_ref} |-> st.notes[r]]]

\* show_verses: "Save previous note if Notes pane is active"
SavePreviousNote(st) ==
    IF st.notes_pane /\ Len(st.last_ref) > 0 THEN save_notes(StoreNote(st)) ELSE st

\* the exception of save_notes leaves show_verses at that call: the note is
\* stored in self.notes and nothing else is done
SavePreviousNote_raises(st) ==
    st.notes_pane /\ Len(st.last_ref) > 0 /\ save_notes_raises(StoreNote(st))

\* [trans for trans, var in self.translation_vars.items() if var.get()]
selected_translations(st) ==
    LET sel(t) == t \in st.translation_vars
    IN  SelectSeq(translations, sel)

\* surah_start == surah_end and start_ayah == end_ayah, on the strings
IsSingleVerse(r) == r.surah_start = r.surah_end /\ r.start_ayah = r.end_ayah

\* range(a, b + 1)
IntRange(a, b) == [i \in 1..(b - a + 1) |-> a + i - 1]

\* the ayahs of the span are visited from the last to the first
AyahsVisited_descending(r, surah_num) ==
    LET surah == str(surah_num)
        start == IF surah_num = int(r.surah_start) THEN int(r.start_ayah) ELSE 1
        end == IF surah_num = int(r.surah_end) THEN int(r.end_ayah)
               ELSE SetMax({int(a) : a \in surahs(surah)})
        present(a) == in_verses(surah, str(a))
    IN  IF in_surahs(surah)
        THEN Only({[i \in 1..Len(span) |-> <<surah, span[Len(span) + 1 - i]>>] :
                     span \in {SelectSeq(IntRange(start, end), present)}})
        ELSE <<>>

\* the ayahs of one surah that the loop visits: those of the span that are
\* keys of verses[surah]
AyahsVisited(r, surah_num) ==
    LET surah == str(surah_num)
        start == IF surah_num = int(r.surah_start) THEN int(r.start_ayah) ELSE 1
        end == IF surah_num = int(r.surah_end) THEN int(r.end_ayah)
               ELSE SetMax({int(a) : a \in surahs(surah)})
        present(a) == in_verses(surah, str(a))
    IN  IF in_surahs(surah)
        THEN Only({[i \in 1..Len(span) |-> <<surah, span[i]>>] :
                     span \in {SelectSeq(IntRange(start, end), present)}})
        ELSE <<>>

\* for surah_num in range(start_surah, end_surah + 1): the visited
\* <<surah, ayah>> in loop order (the range is halved to keep the nesting
\* shallow; the order is that of the loop)
RECURSIVE Walk(_, _, _)
Walk(r, start_surah, end_surah) ==
    IF start_surah > end_surah THEN <<>>
    ELSE IF start_surah = end_surah THEN AyahsVisited(r, start_surah)
    ELSE Only({Walk(r, start_surah, mid) \o Walk(r, mid + 1, end_surah) :
                 mid \in {(start_surah + end_surah) \div 2}})

\* every translation is checked, whatever Broad Search is
matching_translations_all(st, keyword, single, texts) ==
    LET hit(t) == t \in DOMAIN texts /\ Matches(keyword, texts[t])
    IN  IF ~single /\ Len(keyword) > 0 THEN SelectSeq(translations, hit) ELSE <<>>

\* the translations of to_check whose text the keyword matches
matching_translations(st, keyword, single, texts) ==
    LET to_check == IF st.broad_search_var THEN translations
                    ELSE selected_translations(st)
        hit(t) == t \in DOMAIN texts /\ Matches(keyword, texts[t])
    IN  IF ~single /\ Len(keyword) > 0 THEN SelectSeq(to_check, hit) ELSE <<>>

\* the keyword decides also for a single verse
match_keyword(keyword, single, matching) ==
    IF Len(keyword) > 0 THEN Len(matching) > 0 ELSE TRUE

\* match: a single verse is always displayed
match(keyword, single, matching) ==
    IF single THEN TRUE
    ELSE IF Len(keyword) > 0 THEN Len(matching) > 0
    ELSE TRUE

\* Broad Search alone adds the matching translations
display_translations_broad(st, matching) ==
    LET unselected(t) == t \notin st.translation_vars
    IN  IF st.broad_search_var
        THEN selected_translations(st) \o SelectSeq(matching, unselected)
        ELSE selected_translations(st)

\* display_translations: the selected translations, and under Broad Search
\* with Broad Results the matching translations that are not among them
display_translations(st, matching) ==
    LET unselected(t) == t \notin st.translation_vars
    IN  IF st.broad_search_var /\ st.broad_results_var
        THEN selected_translations(st) \o SelectSeq(matching, unselected)
        ELSE selected_translations(st)

\* the loop body for one visited verse, given its texts and matching
\* translations
VerseShown(st, keyword, single, surah, ayah, texts, matching) ==
    LET has_text(t) == t \in DOMAIN texts
        pair(t) == <<t, texts[t]>>
    IN  Only({[surah |-> surah, ayah |-> ayah,
               match |-> match(keyword, single, matching), matching |-> matching,
               display |-> display,
               shown |-> Only({[i \in 1..Len(shown) |-> pair(shown[i])] :
                                 shown \in {SelectSeq(display, has_text)}})] :
                display \in {display_translations(st, matching)}})

\* the loop body for one visited verse
Verse(st, keyword, single, surah, ayah) ==
    Only({VerseShown(st, keyword, single, surah, ayah, texts,
                     matching_translations(st, keyword, single, texts)) :
            texts \in {verses(surah, str(ayah))}})

\* mutant: the reference is reset to the first surah
FallbackReference_first == <<"1">>

\* self.last_reference.set("1-114")
FallbackReference == <<"1", "-", "1", "1", "4">>

\* the verses of the range for which match is set, in loop order
Matched(st, r, single, keyword) ==
    LET matched(v) == v.match
    IN  Only({SelectSeq([i \in 1..Len(visited) |->
                           Verse(st, keyword, single, visited[i][1], visited[i][2])],
                        matched) :
                visited \in {Walk(r, int(r.surah_start), int(r.surah_end))}})

\* a list is kept for every keyword, also for a single verse
new_search_results_keyword(keyword, single, matches) ==
    IF Len(keyword) > 0
    THEN [list |-> TRUE,
          refs |-> [i \in 1..Len(matches) |->
                      RefOf(matches[i].surah, str(matches[i].ayah))]]
    ELSE NoList

\* self.search_results after the loop: the references appended on match, or
\* None
new_search_results(keyword, single, matches) ==
    IF Len(keyword) > 0 /\ ~single
    THEN [list |-> TRUE,
          refs |-> [i \in 1..Len(matches) |->
                      RefOf(matches[i].surah, str(matches[i].ayah))]]
    ELSE NoList

\* what show_verses leaves behind after the loop
Outcome(st, r, single, keyword, matches) ==
    LET has_content(v) == Len(v.shown) > 0
        hits == SelectSeq(matches, has_content)
        additional ==
            IF st.broad_search_var /\ st.broad_results_var
            THEN {t \in UNION {{v.matching[k] : k \in 1..Len(v.matching)} :
                                 v \in {matches[i] : i \in 1..Len(matches)}} :
                    t \notin st.translation_vars}
            ELSE {}
        new_last_ref == IF single THEN RefOf(r.surah_start, r.start_ayah) ELSE <<>>
    IN  [st EXCEPT
           !.search_results = new_search_results(keyword, single, matches),
           !.result_text = hits,
           !.last_ref = new_last_ref,
           !.notes_text =
               IF st.notes_pane /\ Len(new_last_ref) > 0
               THEN IF new_last_ref \in DOMAIN st.notes THEN st.notes[new_last_ref]
                    ELSE <<>>
               ELSE st.notes_text,
           !.status_var =
               IF Len(hits) = 0
               THEN [text |-> "No verses match the search criteria",
                     verses |-> 0, translations |-> 0, extra |-> 0]
               ELSE [text |-> "Found", verses |-> Len(hits),
                     translations |-> Len(selected_translations(st)),
                     extra |-> Cardinality(additional)]]

\* the body of show_verses after a successful parse_reference
Search(st0, r0, single) ==
    Only({Only({Outcome(st, r, single, keyword, matches) :
                  matches \in {Matched(st, r, single, keyword)}}) :
            st \in {st0}, r \in {r0}, keyword \in {lower(strip(st0.keyword_var))}})

Show(st, title) == [st EXCEPT !.messagebox = Append(st.messagebox, title)]

\* the selection is never found empty
not_selected_never(st) == FALSE

\* if not selected_translations
not_selected(st) == Len(selected_translations(st)) = 0

\* the warning of an empty selection
NoTranslationSelected == "Please select at least one translation."

\* show_verses(from_notes, from_navigation)
RECURSIVE show_verses(_, _, _)
show_verses(st0, from_notes, from_navigation) ==
    LET failed(s, kind) ==
            show_verses(
                [Show(s, kind) EXCEPT
                   !.status_var = [text |-> "Error in reference format",
                                   verses |-> 0, translations |-> 0, extra |-> 0],
                   !.last_reference = FallbackReference],
                FALSE, FALSE)
        after_parse(s1, r) ==
            IF not_selected(s1)
            THEN Show(s1, NoTranslationSelected)
            ELSE IF r.error # None THEN failed(s1, r.error)
            ELSE IF s1.notes_var /\ ~IsSingleVerse(r) /\ ~from_navigation
            THEN IF Len(s1.last_ref) > 0
                 THEN LET s2 == [Show(s1, "First close your 'Notes'") EXCEPT
                                   !.last_reference = s1.last_ref]
                          r2 == parse_reference(s1.last_ref)
                      IN  IF r2.error # None THEN failed(s2, r2.error)
                          ELSE Search(s2, r2, TRUE)
                 ELSE LET s2 == [Show(s1, "Notes Active") EXCEPT
                                   !.last_reference = <<"1", ".", "1">>]
                          r2 == parse_reference(<<"1", ".", "1">>)
                      IN  IF r2.error # None THEN failed(s2, r2.error)
                          ELSE Search([s2 EXCEPT !.last_ref = <<"1", ".", "1">>],
                                      r2, TRUE)
            ELSE Search(s1, r, IsSingleVerse(r))
        from(st) ==
            IF ~from_notes /\ st.notes_var /\ Len(strip(st.keyword_var)) > 0
            THEN Show(st, "Close your 'Notes' - or - Clear the search field")
            ELSE IF SavePreviousNote_raises(st) THEN StoreNote(st)
            ELSE Only({Only({after_parse(s1, r) : r \in {resolve(s1.last_reference)}}) :
                         s1 \in {SavePreviousNote(st)}})
    IN  Only({from(st) : st \in {st0}})

\* mutant: the match list of the last search is not looked at
toggle_notes_start(st0) ==
    LET first_verse(s) ==
            IF FALSE
            THEN s.search_results.refs[1]
            ELSE LET r == parse_reference(s.last_reference)
                 IN  IF r.error # None THEN <<"1", ".", "1">>
                     ELSE IF ~IsSingleVerse(r) THEN RefOf(r.surah_start, r.start_ayah)
                     ELSE s.last_reference
        opened(s, ref) ==
            show_verses(
                [s EXCEPT !.keyword_var = <<>>,
                          !.last_reference = ref,
                          !.result_text = <<>>,
                          !.notes_pane = TRUE,
                          !.notes_text = IF ref \in DOMAIN s.notes THEN s.notes[ref]
                                         ELSE <<>>],
                TRUE, FALSE)
        closed(s) ==
            show_verses([s EXCEPT !.notes_pane = FALSE, !.notes_text = <<>>,
                                  !.result_text = <<>>],
                        FALSE, FALSE)
        from(st) ==
            IF st.notes_var
            THEN Only({opened(st, ref) : ref \in {first_verse(st)}})
            ELSE IF SavePreviousNote_raises(st) THEN StoreNote(st)
            ELSE closed(SavePreviousNote(st))
    IN  Only({from(st) : st \in {st0}})

\* toggle_notes, the command of the "Notes" checkbox; notes_var has the new
\* value of the checkbox
toggle_notes(st0) ==
    LET first_verse(s) ==
            IF s.search_results.list /\ Len(s.search_results.refs) > 0
            THEN s.search_results.refs[1]
            ELSE LET r == parse_reference(s.last_reference)
                 IN  IF r.error # None THEN <<"1", ".", "1">>
                     ELSE IF ~IsSingleVerse(r) THEN RefOf(r.surah_start, r.start_ayah)
                     ELSE s.last_reference
        opened(s, ref) ==
            show_verses(
                [s EXCEPT !.keyword_var = <<>>,
                          !.last_reference = ref,
                          !.result_text = <<>>,
                          !.notes_pane = TRUE,
                          !.notes_text = IF ref \in DOMAIN s.notes THEN s.notes[ref]
                                         ELSE <<>>],
                TRUE, FALSE)
        closed(s) ==
            show_verses([s EXCEPT !.notes_pane = FALSE, !.notes_text = <<>>,
                                  !.result_text = <<>>],
                        FALSE, FALSE)
        from(st) ==
            IF st.notes_var
            THEN Only({opened(st, ref) : ref \in {first_verse(st)}})
            ELSE IF SavePreviousNote_raises(st) THEN StoreNote(st)
            ELSE closed(SavePreviousNote(st))
    IN  Only({from(st) : st \in {st0}})

\* on_closing up to save_notes: the note in the pane is stored and the notes
\* are saved; when save_notes raises, the preferences are not saved and the
\* window is not destroyed
on_closing(st) ==
    LET stored == IF st.notes_var /\ st.notes_pane /\ Len(st.last_ref) > 0
                  THEN StoreNote(st) ELSE st
    IN  IF save_notes_raises(stored) THEN stored ELSE save_notes(stored)

\* save_preferences: what preferences.json holds after on_closing
save_preferences(st) ==
    [selected_translations |-> st.translation_vars,
     last_reference |-> st.last_reference, last_keyword |-> st.keyword_var,
     broad_search |-> st.broad_search_var, broad_results |-> st.broad_results_var]

\* DataLoader.load_notes: the "User Notes" renditions of notes.xml
load_notes(file) ==
    IF file.exists
    THEN [loaded |-> TRUE,
          notes |-> [k \in DOMAIN file.notes |-> rendition_text(file.notes[k])]]
    ELSE [loaded |-> FALSE, notes |-> <<>>]

\* ------------------------------------------------------------------------
\* Inputs
\* ------------------------------------------------------------------------

\* characters typed into the reference field
TypedChars == {"0", "1", "2", ".", "-", " ", "a"}

\* every text of at most MaxLen typed characters
ShortTexts == UNION {[1..k -> TypedChars] : k \in 0..MaxLen}

\* numbers written into well-formed references: present and absent surahs,
\* in-range and out-of-range ayahs, leading zeros, several digits
NumStrs ==
    {<<"0">>, <<"1">>, <<"2">>, <<"3">>, <<"9">>, <<"1", "0">>, <<"0", "2">>,
     <<"1", "1", "4">>, <<"1", "1", "5">>}

\* the six accepted forms over NumStrs
FormRefs ==
    NumStrs
      \cup {n \o <<"-">> \o m : n, m \in NumStrs}
      \cup {n \o <<".">> \o v : n, v \in NumStrs}
      \cup {n \o <<".">> \o v \o <<"-">> \o e : n, v, e \in NumStrs}
      \cup {n \o <<"-">> \o m \o <<".">> \o v : n, m, v \in NumStrs}
      \cup {n \o <<".">> \o v \o <<"-">> \o m \o <<".">> \o w : n, v, m, w \in NumStrs}

\* the references the specification quotes
QuotedRefs ==
    {<<"2", ".", "2", "5", "5", "-", "2", "7", ".", "3", "0">>,
     <<"5", "-", "7", ".", "9">>,
     <<"3", ".", "5", "-", "2">>,
     <<"3", ".", "5", "-", "1", "0">>,
     <<"9", "9", "9">>,
     <<"a", "b", "c">>,
     <<"1", ".", "2", ".", "3">>,
     <<"1", "-", "2", "-", "3">>}

RefInputs == ShortTexts \cup FormRefs \cup QuotedRefs

\* notes.xml documents the program can have written before this session
NoNotes == [k \in {} |-> <<>>]

NotesFixtures ==
    {[loaded |-> FALSE, notes |-> NoNotes],
     [loaded |-> TRUE, notes |-> (<<(<<"1">>), (<<"2">>)>> :> <<"b">>)],
     [loaded |-> TRUE, notes |-> (<<(<<"2">>), (<<"9">>)>> :> <<"a", "b">>)]}

\* ------------------------------------------------------------------------
\* Resolution of a reference text
\* ------------------------------------------------------------------------

\* the start-up is over: load_data has finished, on_data_loaded has run
Started == [thread |-> "finished", after |-> <<>>, widgets |-> "gui"]

\* load_notes_into_memory: self.notes from the merged "User Notes"
LoadedNotes ==
    [ref \in {RefOf(k[1], k[2]) : k \in NoteKeys} |->
        dl_notes.notes[SplitRef(ref)]]

\* PreferencesManager.load_preferences: default_prefs, used when there is
\* no preferences.json
default_prefs ==
    [selected_translations |-> {"Arabic", "Muhammad Asad"},
     last_reference |-> FallbackReference, last_keyword |-> <<>>,
     broad_search |-> FALSE, broad_results |-> FALSE]

\* the application after __init__, load_preferences, load_notes_into_memory
\* and create_gui: a checkbox exists for each loaded translation
Loaded(prefs) ==
    [last_reference |-> prefs.last_reference, keyword_var |-> prefs.last_keyword,
     translation_vars |->
         {t \in prefs.selected_translations :
            \E i \in 1..Len(translations) : translations[i] = t},
     broad_search_var |-> prefs.broad_search,
     broad_results_var |-> prefs.broad_results,
     notes_var |-> FALSE, notes |-> LoadedNotes, notes_pane |-> FALSE,
     notes_text |-> <<>>, last_ref |-> <<>>, search_results |-> NoList,
     result_text |-> <<>>,
     status_var |-> [text |-> "", verses |-> 0, translations |-> 0, extra |-> 0],
     messagebox |-> <<>>,
     notes_file |-> [exists |-> dl_notes.loaded,
                     notes |-> [k \in NoteKeys |-> pretty_xml(dl_notes.notes[k])]]]

InitResolve ==
    /\ load = Started
    /\ dl_notes \in NotesFixtures
    /\ \E ref \in RefInputs : Is([Loaded(default_prefs) EXCEPT !.last_reference = ref])
    /\ resolved = Pending
    /\ event = "create_gui"
    /\ events = 0
    /\ verse_text = <<>>
    /\ satisfied = "pending"
    /\ trail = <<>>

Resolve ==
    /\ resolved = Pending
    /\ resolved' = resolve(last_reference)
    /\ UNCHANGED <<dl_notes, load, event, events, verse_text, satisfied, trail, gui>>

NextResolve == Resolve

SpecResolve == InitResolve /\ [][NextResolve]_vars

\* ------------------------------------------------------------------------
\* Searching: the reference and keyword fields and the checkboxes
\* ------------------------------------------------------------------------

\* references submitted for searching: a whole surah, single verses with
\* texts in every translation (1.1), in one translation only (1.3), beyond
\* the verses of the surah (1.9, 2.9), a verse written as a range, the same
\* verse written in two ways, a range beyond the surah, and two references
\* that parse_reference rejects
SearchRefs ==
    {<<"1">>,
     <<"1", ".", "1">>,
     <<"1", ".", "3">>,
     <<"1", ".", "9">>,
     <<"2", ".", "9">>,
     <<"1", ".", "2", "-", "1", ".", "2">>,
     <<"1", ".", "2", "-", "1", ".", "0", "2">>,
     <<"1", ".", "5", "-", "1", ".", "9">>,
     <<"1", "1", "5">>,
     <<"a", "b", "c">>}

\* keywords typed into the keyword field: none, a word, a phrase, a
\* wildcard and a word that no text contains
Keywords ==
    {<<>>,
     <<"a">>,
     <<"\"", "b", " ", "a", "\"">>,
     <<"?", "b">>,
     <<"z">>}

\* preferences.json as an earlier session can have saved it
Preferences ==
    {default_prefs,
     [selected_translations |-> {"Pickthall"},
      last_reference |-> FallbackReference, last_keyword |-> <<"a">>,
      broad_search |-> TRUE, broad_results |-> TRUE],
     [selected_translations |-> {"Arabic"},
      last_reference |-> <<"1", ".", "3">>, last_keyword |-> <<"z">>,
      broad_search |-> TRUE, broad_results |-> FALSE],
     [selected_translations |-> {"User Notes"},
      last_reference |-> <<"2", ".", "9">>, last_keyword |-> <<>>,
      broad_search |-> FALSE, broad_results |-> FALSE]}

\* on_data_loaded ends with show_verses()
InitSearch ==
    /\ load = Started
    /\ dl_notes \in NotesFixtures
    /\ \E prefs \in Preferences : Is(show_verses(Loaded(prefs), FALSE, FALSE))
    /\ resolved = Pending
    /\ event = "show_verses"
    /\ events = 0
    /\ verse_text = <<>>
    /\ satisfied = "pending"
    /\ trail = <<>>

\* the event is handled and counted
Handled(name) ==
    /\ events < MaxEvents
    /\ events' = events + 1
    /\ event' = name
    /\ UNCHANGED <<dl_notes, load, resolved, verse_text, satisfied, trail>>

\* a reference is typed and Return is pressed
SubmitReference ==
    \E ref \in SearchRefs :
      /\ Handled("show_verses")
      /\ Becomes(show_verses([State EXCEPT !.last_reference = ref,
                                           !.messagebox = <<>>], FALSE, FALSE))

\* a keyword is typed and Return is pressed
SubmitKeyword ==
    \E keyword \in Keywords :
      /\ Handled("show_verses")
      /\ Becomes(show_verses([State EXCEPT !.keyword_var = keyword,
                                           !.messagebox = <<>>], FALSE, FALSE))

\* a translation checkbox is clicked (command=self.show_verses)
ToggleTranslation ==
    \E t \in {translations[i] : i \in 1..Len(translations)} :
      /\ Handled("show_verses")
      /\ Becomes(show_verses(
            [State EXCEPT
               !.translation_vars =
                   IF t \in translation_vars THEN translation_vars \ {t}
                   ELSE translation_vars \cup {t},
               !.messagebox = <<>>], FALSE, FALSE))

\* "Broad Search" is clicked (command=self.show_verses)
ToggleBroadSearch ==
    /\ Handled("show_verses")
    /\ Becomes(show_verses([State EXCEPT !.broad_search_var = ~broad_search_var,
                                         !.messagebox = <<>>], FALSE, FALSE))

\* "Broad Results" is clicked: enabled only while Broad Search is set, and
\* bound to no command
ToggleBroadResults ==
    /\ broad_search_var
    /\ Handled("toggle_broad_results")
    /\ Becomes([State EXCEPT !.broad_results_var = ~broad_results_var,
                             !.messagebox = <<>>])

NextSearch ==
    \/ SubmitReference
    \/ SubmitKeyword
    \/ ToggleTranslation
    \/ ToggleBroadSearch
    \/ ToggleBroadResults

SpecSearch == InitSearch /\ [][NextSearch]_vars

\* ------------------------------------------------------------------------
\* Stepping from verse to verse
\* ------------------------------------------------------------------------

\* return None
NoVerse == <<>>

\* get_previous_verse(surah, ayah)
get_previous_verse(surah, ayah) ==
    IF int(ayah) > 1 THEN <<surah, str(int(ayah) - 1)>>
    ELSE IF int(surah) > 1
    THEN <<str(int(surah) - 1), str(ayah_counts(str(int(surah) - 1)))>>
    ELSE NoVerse

\* the last ayah of a surah is stepped over as well
get_next_verse_over(surah, ayah) ==
    IF int(ayah) <= ayah_counts(surah) THEN <<surah, str(int(ayah) + 1)>>
    ELSE IF int(surah) < LastSurah THEN <<str(int(surah) + 1), <<"1">>>>
    ELSE NoVerse

\* get_next_verse(surah, ayah)
get_next_verse(surah, ayah) ==
    IF int(ayah) < ayah_counts(surah) THEN <<surah, str(int(ayah) + 1)>>
    ELSE IF int(surah) < LastSurah THEN <<str(int(surah) + 1), <<"1">>>>
    ELSE NoVerse

\* go_previous, the command of the "<" button
go_previous(st0) ==
    LET stepped(st, r) ==
            IF r.error # None THEN st
            ELSE IF IsSingleVerse(r)
            THEN LET prev_verse == get_previous_verse(r.surah_start, r.start_ayah)
                 IN  IF prev_verse = NoVerse THEN st
                     ELSE show_verses(
                            [st EXCEPT !.last_reference =
                                          RefOf(prev_verse[1], prev_verse[2])],
                            FALSE, TRUE)
            ELSE show_verses(
                   [st EXCEPT !.last_reference = RefOf(r.surah_start, r.start_ayah)],
                   FALSE, TRUE)
    IN  Only({stepped(st, r) : st \in {st0}, r \in {parse_reference(st0.last_reference)}})

\* go_next, the command of the ">" button
go_next(st0) ==
    LET stepped(st, r) ==
            IF r.error # None THEN st
            ELSE IF IsSingleVerse(r)
            THEN LET next_verse == get_next_verse(r.surah_start, r.start_ayah)
                 IN  IF next_verse = NoVerse THEN st
                     ELSE show_verses(
                            [st EXCEPT !.last_reference =
                                          RefOf(next_verse[1], next_verse[2])],
                            FALSE, TRUE)
            ELSE show_verses(
                   [st EXCEPT !.last_reference = RefOf(r.surah_end, r.end_ayah)],
                   FALSE, TRUE)
    IN  Only({stepped(st, r) : st \in {st0}, r \in {parse_reference(st0.last_reference)}})

\* the verses <<surah, ayah>> of the corpus
CorpusVerses ==
    UNION {{<<str(n), a>> : a \in surahs(str(n))} : n \in 1..LastSurah}

\* single verses that a reference can name without being in the corpus
OtherVerses ==
    {<<(<<"1">>), (<<"9">>)>>, <<(<<"1">>), (<<"0", "2">>)>>,
     <<(<<"1", "1", "4">>), (<<"9">>)>>}

InitNavigate ==
    /\ load = Started
    /\ dl_notes \in NotesFixtures
    /\ Is(Loaded(default_prefs))
    /\ trail \in {<<[op |-> "start", at |-> k]>> : k \in CorpusVerses \cup OtherVerses}
    /\ verse_text = <<>>
    /\ satisfied = "pending"
    /\ resolved = Pending
    /\ event = "create_gui"
    /\ events = 0

\* get_next_verse is applied to the verse reached last
GetNext ==
    /\ Len(trail) <= MaxSteps
    /\ trail[Len(trail)].at # NoVerse
    /\ trail' = Append(trail,
          [op |-> "next",
           at |-> get_next_verse(trail[Len(trail)].at[1], trail[Len(trail)].at[2])])
    /\ UNCHANGED <<dl_notes, load, resolved, event, events, verse_text, satisfied, gui>>

\* get_previous_verse is applied to the verse reached last
GetPrevious ==
    /\ Len(trail) <= MaxSteps
    /\ trail[Len(trail)].at # NoVerse
    /\ trail' = Append(trail,
          [op |-> "previous",
           at |-> get_previous_verse(trail[Len(trail)].at[1], trail[Len(trail)].at[2])])
    /\ UNCHANGED <<dl_notes, load, resolved, event, events, verse_text, satisfied, gui>>

NextNavigate == GetNext \/ GetPrevious

SpecNavigate == InitNavigate /\ [][NextNavigate]_vars

\* ------------------------------------------------------------------------
\* Matching one text against a keyword
\* ------------------------------------------------------------------------

\* characters of the keywords: letters, whitespace and the two wildcards
KeywordChars == {"a", "b", " ", "?", "*"}

\* characters of the texts: letters in both cases, whitespace, punctuation
TextChars == {"a", "b", "B", " ", "-"}

KeywordInputs == UNION {[1..k -> KeywordChars] : k \in 0..MaxText}

TextInputs == UNION {[1..k -> TextChars] : k \in 0..MaxText}

InitMatch ==
    /\ load = Started
    /\ dl_notes = [loaded |-> FALSE, notes |-> NoNotes]
    /\ \E keyword \in KeywordInputs :
         Is([Loaded(default_prefs) EXCEPT !.keyword_var = keyword])
    /\ verse_text \in TextInputs
    /\ satisfied = "pending"
    /\ trail = <<>>
    /\ resolved = Pending
    /\ event = "create_gui"
    /\ events = 0

\* the loop compiles the keyword and searches the text of a translation
Match ==
    /\ satisfied = "pending"
    /\ Len(strip(keyword_var)) > 0
    /\ satisfied' = IF Matches(lower(strip(keyword_var)), verse_text) THEN "True"
                    ELSE "False"
    /\ UNCHANGED <<dl_notes, load, resolved, event, events, verse_text, trail, gui>>

NextMatch == Match

SpecMatch == InitMatch /\ [][NextMatch]_vars

\* ------------------------------------------------------------------------
\* Notes: the notes pane, closing the window and the next launch
\* ------------------------------------------------------------------------

\* the events of the notes sessions that are followed
MaxNoteEvents == 4

\* texts left in the notes pane: nothing, a word between white space, a text
\* with markup characters, a text with a carriage return and a text with a
\* form feed, as a paste from another program leaves them
NoteTexts ==
    {<<>>,
     <<" ", "a", "\n">>,
     <<"a", "<", "&">>,
     <<"a", "\r", "b">>,
     <<"a", "\f", "b">>}

\* references submitted while the notes are used: a verse, a verse beyond
\* those of its surah and a whole surah
NoteRefs == {<<"1", ".", "2">>, <<"2", ".", "9">>, <<"1">>}

\* preferences.json before the first of the sessions
NotePreferences ==
    {default_prefs,
     [selected_translations |-> {"User Notes", "Arabic"},
      last_reference |-> <<"1", ".", "2">>, last_keyword |-> <<>>,
      broad_search |-> FALSE, broad_results |-> FALSE],
     [selected_translations |-> {"Arabic"},
      last_reference |-> <<"2", ".", "9">>, last_keyword |-> <<>>,
      broad_search |-> FALSE, broad_results |-> FALSE]}

InitNotes ==
    /\ load = Started
    /\ dl_notes \in NotesFixtures
    /\ \E prefs \in NotePreferences : Is(show_verses(Loaded(prefs), FALSE, FALSE))
    /\ resolved = Pending
    /\ event = "on_data_loaded"
    /\ events = 0
    /\ verse_text = <<>>
    /\ satisfied = "pending"
    /\ trail = <<>>

\* the window exists
Running == event # "destroy"

\* the event is handled and counted
NoteHandled(name) ==
    /\ events < MaxNoteEvents
    /\ events' = events + 1
    /\ event' = name
    /\ UNCHANGED <<load, resolved, verse_text, satisfied, trail>>

\* the "Notes" checkbox is clicked
ToggleNotes ==
    /\ Running
    /\ NoteHandled("toggle_notes")
    /\ Becomes(toggle_notes([State EXCEPT !.notes_var = ~notes_var,
                                          !.messagebox = <<>>]))
    /\ UNCHANGED dl_notes

\* the text of the notes pane is edited
EditNote ==
    \E note \in NoteTexts \ {notes_text} :
      /\ Running
      /\ notes_pane
      /\ NoteHandled("notes_text")
      /\ Becomes([State EXCEPT !.notes_text = note, !.messagebox = <<>>])
      /\ UNCHANGED dl_notes

\* a reference is typed and Return is pressed
SubmitNoteReference ==
    \E ref \in NoteRefs :
      /\ Running
      /\ NoteHandled("show_verses")
      /\ Becomes(show_verses([State EXCEPT !.last_reference = ref,
                                           !.messagebox = <<>>], FALSE, FALSE))
      /\ UNCHANGED dl_notes

\* the window is closed: on_closing, which ends with root.destroy()
CloseWindow ==
    /\ Running
    /\ NoteHandled(IF save_notes_raises(on_closing(State)) THEN "on_closing"
                   ELSE "destroy")
    /\ Becomes([on_closing(State) EXCEPT !.messagebox = <<>>])
    /\ UNCHANGED dl_notes

\* the program is started again: load_data reads notes.xml, on_data_loaded
\* sets up the application from preferences.json and calls show_verses
Launch ==
    /\ ~Running
    /\ NoteHandled("on_data_loaded")
    /\ dl_notes' = load_notes(notes_file)
    /\ \E prefs \in {save_preferences(State)}, file \in {notes_file} :
         Becomes([show_verses(Loaded(prefs), FALSE, FALSE)
                    EXCEPT !.notes_file = file]')

NextNotes ==
    \/ ToggleNotes
    \/ EditNote
    \/ SubmitNoteReference
    \/ CloseWindow
    \/ Launch

SpecNotes == InitNotes /\ [][NextNotes]_vars

\* ------------------------------------------------------------------------
\* Notes mode: the reference field, Return, the "Notes" checkbox, "<" and ">"
\* ------------------------------------------------------------------------

\* the events of a session in notes mode that are followed
MaxModeEvents == 3

\* texts typed into the reference field: a verse, a surah, a range within a
\* surah, ranges that end and start at verse 0 and a text that is no reference
ModeRefs ==
    {<<"1", ".", "1">>,
     <<"2">>,
     <<"1", ".", "2", "-", "1", ".", "3">>,
     <<"1", "-", "2", ".", "0">>,
     <<"1", ".", "0", "-", "1", ".", "2">>,
     <<"a", "b", "c">>,
     <<"1", "1", "5">>}

\* preferences.json before the session: the whole corpus, a verse with
\* "User Notes" selected, and a keyword searched over a surah
ModeKeywords == {<<>>, <<"a">>}

ModePreferences ==
    {default_prefs,
     [selected_translations |-> {"User Notes", "Arabic"},
      last_reference |-> <<"1", ".", "2">>, last_keyword |-> <<>>,
      broad_search |-> FALSE, broad_results |-> FALSE],
     [selected_translations |-> {"Pickthall"},
      last_reference |-> <<"1">>, last_keyword |-> <<"a">>,
      broad_search |-> FALSE, broad_results |-> FALSE]}

InitMode ==
    /\ load = Started
    /\ dl_notes \in NotesFixtures
    /\ \E prefs \in ModePreferences : Is(show_verses(Loaded(prefs), FALSE, FALSE))
    /\ resolved = Pending
    /\ event = "on_data_loaded"
    /\ events = 0
    /\ verse_text = <<>>
    /\ satisfied = "pending"
    /\ trail = <<>>

\* the event is handled and counted
ModeHandled(name) ==
    /\ events < MaxModeEvents
    /\ events' = events + 1
    /\ event' = name
    /\ UNCHANGED <<dl_notes, load, resolved, verse_text, satisfied, trail>>

\* a text is typed into the reference field, Return is not pressed
EditReference ==
    \E ref \in ModeRefs \ {last_reference} :
      /\ ModeHandled("ref_entry")
      /\ Becomes([State EXCEPT !.last_reference = ref, !.messagebox = <<>>])

\* Return is pressed in the reference field
PressReturn ==
    /\ ModeHandled("show_verses")
    /\ Becomes(show_verses([State EXCEPT !.messagebox = <<>>], FALSE, FALSE))

\* a keyword is typed and Return is pressed in the keyword field
EnterKeyword ==
    \E keyword \in ModeKeywords \ {keyword_var} :
      /\ ModeHandled("show_verses")
      /\ Becomes(show_verses([State EXCEPT !.keyword_var = keyword,
                                           !.messagebox = <<>>], FALSE, FALSE))

\* the "Notes" checkbox is clicked
ClickNotes ==
    /\ ModeHandled("toggle_notes")
    /\ Becomes(toggle_notes([State EXCEPT !.notes_var = ~notes_var,
                                          !.messagebox = <<>>]))

\* the "<" button is clicked
ClickPrevious ==
    /\ ModeHandled("go_previous")
    /\ Becomes(go_previous([State EXCEPT !.messagebox = <<>>]))

\* the ">" button is clicked
ClickNext ==
    /\ ModeHandled("go_next")
    /\ Becomes(go_next([State EXCEPT !.messagebox = <<>>]))

NextMode ==
    \/ EditReference
    \/ PressReturn
    \/ EnterKeyword
    \/ ClickNotes
    \/ ClickPrevious
    \/ ClickNext

SpecMode == InitMode /\ [][NextMode]_vars

\* ------------------------------------------------------------------------
\* The start-up: __init__, the load_data thread and on_data_loaded
\* ------------------------------------------------------------------------

\* what load_data can meet: the XML file is found or not, or the file dialog
\* is cancelled (SystemExit); the XML is parsed or parse_xml raises
Located == {"found", "FileNotFoundError", "SystemExit"}
Parsed == {"parsed", "Failed to parse XML"}

\* mutant: on_data_loaded is scheduled after a failure as well
load_data_after_always(failure) == "on_data_loaded"

\* what load_data gives to root.after: on_data_loaded when parse_xml and
\* load_notes have returned, the error dialog when an exception was caught
load_data_after(failure) == IF failure = None THEN "on_data_loaded" ELSE "showerror"

\* __init__: the fields are set from preferences.json, the window holds the
\* loading label and the thread is started. The checkboxes do not exist yet:
\* translation_vars stands for the selection of preferences.json, which
\* load_preferences gives them in on_data_loaded. notes.xml is what an
\* earlier session wrote.
InitLoad ==
    /\ load = [thread |-> "locate_xml_file", after |-> <<>>,
               widgets |-> "loading_label"]
    /\ dl_notes = [loaded |-> FALSE, notes |-> NoNotes]
    /\ \E prefs \in ModePreferences, file \in NotesFixtures :
         Is([Loaded(prefs) EXCEPT
               !.translation_vars = prefs.selected_translations,
               !.notes_file =
                   [exists |-> file.loaded,
                    notes |-> [k \in DOMAIN file.notes |-> pretty_xml(file.notes[k])]]])
    /\ resolved = Pending
    /\ event = "__init__"
    /\ events = 0
    /\ verse_text = <<>>
    /\ satisfied = "pending"
    /\ trail = <<>>

\* a step of the load_data thread
ThreadStep == UNCHANGED <<resolved, event, events, verse_text, satisfied, trail, gui>>

\* load_data: locate_xml_file
LocateXmlFile ==
    \E located \in Located :
      /\ load.thread = "locate_xml_file"
      /\ load' =
           IF located = "found" THEN [load EXCEPT !.thread = "parse_xml"]
           ELSE IF located = "SystemExit" THEN [load EXCEPT !.thread = "exited"]
           ELSE [load EXCEPT !.thread = "failed",
                             !.after = Append(@, load_data_after(located))]
      /\ UNCHANGED dl_notes
      /\ ThreadStep

\* load_data: data_loader.parse_xml
ParseXml ==
    \E parsed \in Parsed :
      /\ load.thread = "parse_xml"
      /\ load' =
           IF parsed = "parsed" THEN [load EXCEPT !.thread = "load_notes"]
           ELSE [load EXCEPT !.thread = "failed",
                             !.after = Append(@, load_data_after(parsed))]
      /\ UNCHANGED dl_notes
      /\ ThreadStep

\* load_data: data_loader.load_notes and root.after(0, on_data_loaded)
LoadNotes ==
    /\ load.thread = "load_notes"
    /\ dl_notes' = load_notes(notes_file)
    /\ load' = [load EXCEPT !.thread = "finished",
                            !.after = Append(@, load_data_after(None))]
    /\ ThreadStep

\* the main loop handles an event
LoadHandled(name) ==
    /\ event # "destroy"
    /\ events < MaxModeEvents
    /\ events' = events + 1
    /\ event' = name
    /\ UNCHANGED <<dl_notes, resolved, verse_text, satisfied, trail>>

\* the main loop runs on_data_loaded
OnDataLoaded ==
    /\ Len(load.after) > 0
    /\ Head(load.after) = "on_data_loaded"
    /\ LoadHandled("on_data_loaded")
    /\ load' = [load EXCEPT !.after = Tail(@), !.widgets = "gui"]
    /\ \E prefs \in {save_preferences(State)}, file \in {notes_file} :
         Becomes([show_verses(Loaded(prefs), FALSE, FALSE)
                    EXCEPT !.notes_file = file])

\* the main loop shows the error dialog of load_data
ShowError ==
    /\ Len(load.after) > 0
    /\ Head(load.after) = "showerror"
    /\ LoadHandled("showerror")
    /\ load' = [load EXCEPT !.after = Tail(@)]
    /\ Becomes([State EXCEPT !.messagebox = <<"Error">>])

\* WM_DELETE_WINDOW: on_closing. Before create_gui, save_preferences raises
\* AttributeError (translation_vars, ref_entry) and root.destroy is not reached
CloseAnytime ==
    /\ LoadHandled(IF load.widgets # "gui" \/ save_notes_raises(on_closing(State))
                   THEN "on_closing" ELSE "destroy")
    /\ Becomes([on_closing(State) EXCEPT !.messagebox = <<>>])
    /\ UNCHANGED load

\* with the widgets of create_gui: a text is typed into the reference field
TypeReference ==
    /\ load.widgets = "gui"
    /\ event # "destroy"
    /\ EditReference

\* with the widgets of create_gui: Return is pressed in the reference field
Submit ==
    /\ load.widgets = "gui"
    /\ event # "destroy"
    /\ PressReturn

NextLoad ==
    \/ LocateXmlFile
    \/ ParseXml
    \/ LoadNotes
    \/ OnDataLoaded
    \/ ShowError
    \/ CloseAnytime
    \/ TypeReference
    \/ Submit

SpecLoad == InitLoad /\ [][NextLoad]_vars

\* ------------------------------------------------------------------------
\* Properties of the resolver (checked under SpecResolve)
\* ------------------------------------------------------------------------

\* the trimmed text that was resolved
txt == strip(last_reference)

IsNum(s) == Len(s) > 0 /\ \A i \in 1..Len(s) : s[i] \in Digits

Positions(t, c) == {i \in 1..Len(t) : t[i] = c}

Before(t, i) == SubSeq(t, 1, i - 1)

After(t, i) == SubSeq(t, i + 1, Len(t))

Between(t, i, j) == SubSeq(t, i + 1, j - 1)

\* "N" or "N.V"
IsPart(s) ==
    \/ IsNum(s)
    \/ \E i \in Positions(s, ".") : IsNum(Before(s, i)) /\ IsNum(After(s, i))

\* one of the six accepted forms
IsRef(t) ==
    \/ IsPart(t)
    \/ \E j \in Positions(t, "-") : IsPart(Before(t, j)) /\ IsPart(After(t, j))

\* last(N): the highest verse number of surah N in the corpus
HighestVerse(s) ==
    CHOOSE m \in {int(a) : a \in surahs(s)} : \A a \in surahs(s) : int(a) <= m

\* (start-chapter, start-verse) <= (end-chapter, end-verse), numerically
Ordered(r) ==
    \/ int(r.surah_start) < int(r.surah_end)
    \/ /\ int(r.surah_start) = int(r.surah_end)
       /\ int(r.start_ayah) <= int(r.end_ayah)

\* C1: a reference N.V-E whose surah N exists resolves to (N,V)-(N,E) when
\* E <= N numerically, and to (N,V)-(E,last(E)) when E > N and surah E exists.
C1_VerseToAyah ==
    resolved # Pending =>
      \A i \in Positions(txt, "."), j \in Positions(txt, "-") :
        LET N == Before(txt, i)
            V == Between(txt, i, j)
            E == After(txt, j)
        IN  (i < j /\ IsNum(N) /\ IsNum(V) /\ IsNum(E) /\ in_surahs(N)) =>
              IF int(E) <= int(N) THEN resolved = Range(N, V, N, E)
              ELSE (in_surahs(E) =>
                      resolved = Range(N, V, E, str(HighestVerse(E))))

\* an N.V-E reference with a two-digit E above N was resolved to an end surah
C1_Witness ==
    /\ resolved.error = None
    /\ \E i \in Positions(txt, "."), j \in Positions(txt, "-") :
         /\ i < j
         /\ IsNum(Before(txt, i)) /\ IsNum(Between(txt, i, j)) /\ IsNum(After(txt, j))
         /\ Len(After(txt, j)) = 2
         /\ resolved.surah_end = After(txt, j)
         /\ resolved.surah_end # resolved.surah_start

\* C2 as stated: every range that resolve returns has start <= end.
C2_StartBeforeEnd == resolved.error = None => Ordered(resolved)

\* the endpoints of a reference, as its text writes them, are in ascending order
WrittenAscending(t) ==
    \A j \in Positions(t, "-") :
      LET L == Before(t, j)
          R == After(t, j)
          N == IF IsNum(L) THEN L ELSE Before(L, CHOOSE i \in Positions(L, ".") : TRUE)
          V == IF IsNum(L) THEN <<"1">>
               ELSE After(L, CHOOSE i \in Positions(L, ".") : TRUE)
      IN  IF IsNum(R)
          THEN IF IsNum(L) THEN int(N) <= int(R)
               ELSE (int(R) <= int(N) => int(V) <= int(R))
          ELSE LET k == CHOOSE i \in Positions(R, ".") : TRUE
                   M == Before(R, k)
                   W == After(R, k)
               IN  int(N) < int(M) \/ (int(N) = int(M) /\ int(V) <= int(W))

\* C2 amended: a returned range has start <= end exactly when the reference
\* names one endpoint or writes its two endpoints in ascending order; resolve
\* neither reorders nor rejects endpoints written in descending order.
C2_OrderedAsWritten ==
    resolved.error = None => (Ordered(resolved) <=> WrittenAscending(txt))

\* a two-endpoint reference over two different surahs resolved in order
C2_Witness ==
    /\ resolved.error = None
    /\ Positions(txt, "-") # {}
    /\ resolved.surah_start # resolved.surah_end
    /\ Ordered(resolved)

\* C3: for every surah N of the corpus, resolve("N") is (N,1)-(N,last(N)).
C3_WholeSurah ==
    resolved # Pending =>
      ((IsNum(txt) /\ in_surahs(txt)) =>
          resolved = Range(txt, <<"1">>, txt, str(HighestVerse(txt))))

\* surah 2, whose highest verse is not 1, was resolved as a whole
C3_Witness ==
    /\ txt = <<"2">>
    /\ resolved.error = None
    /\ resolved.end_ayah # <<"1">>

\* C4: for surahs N and M of the corpus, resolve("N-M") is (N,1)-(M,last(M)).
C4_SurahRange ==
    resolved # Pending =>
      \A j \in Positions(txt, "-") :
        LET N == Before(txt, j)
            M == After(txt, j)
        IN  (IsNum(N) /\ IsNum(M) /\ in_surahs(N) /\ in_surahs(M)) =>
              resolved = Range(N, <<"1">>, M, str(HighestVerse(M)))

\* a range of two different surahs was resolved
C4_Witness ==
    /\ resolved.error = None
    /\ \E j \in Positions(txt, "-") :
         /\ IsNum(Before(txt, j)) /\ IsNum(After(txt, j))
         /\ Before(txt, j) # After(txt, j)
         /\ resolved.surah_end = After(txt, j)

\* C5: for every surah N of the corpus, resolve("N.0") equals resolve("N"),
\* that is (N,1)-(N,last(N)).
C5_VerseZero ==
    resolved # Pending =>
      \A i \in Positions(txt, ".") :
        LET N == Before(txt, i)
        IN  (IsNum(N) /\ After(txt, i) = <<"0">> /\ in_surahs(N)) =>
              /\ resolved = parse_reference(N)
              /\ resolved = Range(N, <<"1">>, N, str(HighestVerse(N)))

\* "2.0" was resolved to the whole of surah 2
C5_Witness ==
    /\ txt = <<"2", ".", "0">>
    /\ resolved.error = None
    /\ resolved.start_ayah = <<"1">>
    /\ resolved.end_ayah # <<"1">>

\* C6: a reference N.V-M.W whose surahs N and M exist resolves to exactly
\* (N,V)-(M,W), the four numbers unchanged.
C6_VerseRange ==
    resolved # Pending =>
      \A i \in Positions(txt, "."), j \in Positions(txt, "-"),
         k \in Positions(txt, ".") :
        LET N == Before(txt, i)
            V == Between(txt, i, j)
            M == Between(txt, j, k)
            W == After(txt, k)
        IN  (i < j /\ j < k /\ IsNum(N) /\ IsNum(V) /\ IsNum(M) /\ IsNum(W)
               /\ in_surahs(N) /\ in_surahs(M)) =>
              resolved = Range(N, V, M, W)

\* "2.255-27.30" was resolved to (2,255)-(27,30)
C6_Witness ==
    /\ txt = <<"2", ".", "2", "5", "5", "-", "2", "7", ".", "3", "0">>
    /\ resolved = Range(<<"2">>, <<"2", "5", "5">>, <<"2", "7">>, <<"3", "0">>)

\* the surahs a well-formed reference names as its endpoints
NamedSurahs(t) ==
    LET first(s) == IF IsNum(s) THEN s
                    ELSE Before(s, CHOOSE i \in Positions(s, ".") : TRUE)
    IN  IF Positions(t, "-") = {} THEN {first(t)}
        ELSE LET j == CHOOSE p \in Positions(t, "-") : TRUE
                 L == Before(t, j)
                 R == After(t, j)
             IN  IF IsNum(R) /\ ~IsNum(L) /\ int(R) <= int(first(L))
                 THEN {first(L)}
                 ELSE {first(L), first(R)}

\* C7: a well-formed reference that names a start or end surah absent from
\* the corpus fails with ChapterNotFound and returns no range.
C7_ChapterNotFound ==
    resolved # Pending =>
      ((IsRef(txt) /\ \E s \in NamedSurahs(txt) : ~in_surahs(s)) =>
          resolved = Raise(ChapterNotFound))

\* a reference with an existing start surah and an absent end surah failed
C7_Witness ==
    /\ resolved = Raise(ChapterNotFound)
    /\ \E j \in Positions(txt, "-") :
         /\ IsNum(Before(txt, j)) /\ IsNum(After(txt, j))
         /\ in_surahs(Before(txt, j))
         /\ ~in_surahs(After(txt, j))

\* C8: a text that matches none of the six forms fails with InvalidReference
\* and returns no range.
C8_InvalidReference ==
    resolved # Pending => (~IsRef(txt) => resolved = Raise(InvalidReference))

\* "1.2.3" was rejected
C8_Witness ==
    /\ txt = <<"1", ".", "2", ".", "3">>
    /\ resolved = Raise(InvalidReference)

\* ------------------------------------------------------------------------
\* Properties of searching (checked under SpecSearch)
\* ------------------------------------------------------------------------

\* the last event was a show_verses that went through its loop: it was not
\* stopped by the Notes warning or by an empty selection
Searched ==
    /\ event = "show_verses"
    /\ translation_vars # {}
    /\ ~(notes_var /\ Len(strip(keyword_var)) > 0)

\* the range that the search went through
found == resolve(last_reference)

\* the verse count of surah s: what the translation data holds
VerseCount(s) == ayah_counts(s)

\* the range lies in one surah of the translation data, beyond its verses
BeyondVerses(r) ==
    /\ r.error = None
    /\ r.surah_start = r.surah_end
    /\ IsXmlSurah(r.surah_start)
    /\ int(r.start_ayah) > VerseCount(r.surah_start)
    /\ int(r.end_ayah) > VerseCount(r.surah_start)

\* C9: resolve checks no verse number: for an existing surah N and a verse
\* number V above the verse count of N, resolve("N.V") is (N,V)-(N,V); and a
\* search over a range whose verse numbers lie beyond the verses of the surah
\* shows no error and yields no hit.
C9_OutOfRangeNoHits ==
    /\ \A i \in Positions(txt, ".") :
         LET N == Before(txt, i)
             V == After(txt, i)
         IN  (IsNum(N) /\ IsNum(V) /\ IsXmlSurah(N) /\ int(V) > VerseCount(N)) =>
               found = Range(N, V, N, V)
    /\ (Searched /\ BeyondVerses(found)) =>
         /\ messagebox = <<>>
         /\ result_text = <<>>

\* start and end of the range are the same surah and verse, numerically
Degenerate(r) ==
    /\ r.error = None
    /\ int(r.surah_start) = int(r.surah_end)
    /\ int(r.start_ayah) = int(r.end_ayah)

\* the verse at the start of the range, as the loop writes its keys
StartVerse(r) == <<str(int(r.surah_start)), str(int(r.start_ayah))>>

\* the corpus holds the verse and a checked translation has a text for it
HasSelectedText(k) ==
    /\ in_surahs(k[1])
    /\ in_verses(k[1], k[2])
    /\ \E t \in translation_vars : t \in DOMAIN verses(k[1], k[2])

\* C10 as stated: a search over a degenerate range returns exactly one hit.
C10_ExactlyOneHit ==
    (Searched /\ Degenerate(found)) => Len(result_text) = 1

\* C10 amended: a search over a degenerate range returns at most one hit,
\* and that hit is the verse of the range. When start and end are written
\* identically, it returns that hit exactly when the corpus holds the verse
\* and a selected translation has a text for it, whatever the keyword, Broad
\* Search and Broad Results are.
C10_AtMostOneHit ==
    (Searched /\ Degenerate(found)) =>
      /\ Len(result_text) <= 1
      /\ \A i \in 1..Len(result_text) :
           <<result_text[i].surah, str(result_text[i].ayah)>> = StartVerse(found)
      /\ IsSingleVerse(found) =>
           (Len(result_text) = 1 <=> HasSelectedText(StartVerse(found)))

\* a single verse was searched with Broad Search set and a keyword that its
\* texts do not contain, and it is the one hit
C10_Witness ==
    /\ Searched
    /\ IsSingleVerse(found)
    /\ broad_search_var
    /\ Len(strip(keyword_var)) > 0
    /\ search_results = NoList
    /\ Len(result_text) = 1
    /\ \A k \in 1..Len(result_text[1].shown) :
         ~Matches(lower(strip(keyword_var)), result_text[1].shown[k][2])

\* C11: a show_verses that finds no translation selected shows the warning
\* and nothing else: no error dialog and no fallback reference (the reference
\* is not resolved), and the displayed verses, the status line, search_results
\* and last_ref stay as they were.
C11_NoTranslationSelected ==
    [][(event' = "show_verses" /\ translation_vars' = {}
          /\ ~(notes_var' /\ Len(strip(keyword_var')) > 0)) =>
         /\ messagebox' = <<NoTranslationSelected>>
         /\ result_text' = result_text
         /\ status_var' = status_var
         /\ search_results' = search_results
         /\ last_ref' = last_ref
         /\ last_reference' \in {last_reference} \cup SearchRefs]_vars

\* with nothing selected, a reference that parse_reference rejects was
\* submitted while verses of an earlier search are displayed
C11_Witness ==
    /\ event = "show_verses"
    /\ translation_vars = {}
    /\ messagebox = <<NoTranslationSelected>>
    /\ found.error # None
    /\ Len(result_text) > 0

\* the keyword as show_verses uses it
typed_keyword == lower(strip(keyword_var))

\* the last show_verses searched a range of several verses for a keyword
KeywordSearched ==
    /\ Searched
    /\ found.error = None
    /\ ~IsSingleVerse(found)
    /\ Len(typed_keyword) > 0

\* the verses <<surah, ayah>> of the searched range that the corpus holds, in
\* the order of the loop
RangeVerses ==
    Only({Walk(r, int(r.surah_start), int(r.surah_end)) : r \in {found}})

\* the text of a translation of T satisfies the matcher for verse k
MatchesIn(T, k) ==
    \E t \in T : /\ t \in DOMAIN verses(k[1], str(k[2]))
                 /\ Matches(typed_keyword, verses(k[1], str(k[2]))[t])

\* the verse of a hit
HitVerse(h) == <<h.surah, h.ayah>>

AllTranslations == {translations[i] : i \in 1..Len(translations)}

\* C12: without Broad Search, every hit of a keyword search over a range of
\* several verses has a selected translation whose text satisfies the matcher;
\* a text of an unselected translation makes no verse a hit.
C12_SelectedOnly ==
    (KeywordSearched /\ ~broad_search_var) =>
      \A i \in 1..Len(result_text) :
        MatchesIn(translation_vars, HitVerse(result_text[i]))

\* a keyword search without Broad Search has hits, and leaves out a verse
\* of the range that only an unselected translation matches
C12_Witness ==
    /\ KeywordSearched
    /\ ~broad_search_var
    /\ Len(result_text) > 0
    /\ \E j \in 1..Len(RangeVerses) :
         /\ MatchesIn(AllTranslations \ translation_vars, RangeVerses[j])
         /\ ~MatchesIn(translation_vars, RangeVerses[j])
         /\ \A i \in 1..Len(result_text) : HitVerse(result_text[i]) # RangeVerses[j]

\* the selected translations, in the order of the checkboxes
selected == selected_translations(State)

\* the unselected translations whose text satisfies the matcher for verse
\* k, in the order of the checkboxes; none when no keyword is searched
MatchingUnselected(k) ==
    LET hit(t) == t \notin translation_vars /\ MatchesIn({t}, k)
    IN  IF KeywordSearched THEN SelectSeq(translations, hit) ELSE <<>>

NoneTwice(seq) == \A i, j \in 1..Len(seq) : seq[i] = seq[j] => i = j

\* C13: the display set of every hit is the selected translations, unless
\* Broad Search and Broad Results are both set: then it is the selected
\* translations followed by every matching translation that is not
\* selected, none listed twice. The hit shows the translations of the
\* display set that have a text for the verse.
C13_DisplaySet ==
    (Searched /\ found.error = None) =>
      \A i \in 1..Len(result_text) :
        LET h == result_text[i]
            has_text(t) == t \in DOMAIN verses(h.surah, str(h.ayah))
            shown == SelectSeq(h.display, has_text)
        IN  /\ h.display =
                 IF broad_search_var /\ broad_results_var
                 THEN selected \o MatchingUnselected(HitVerse(h))
                 ELSE selected
            /\ NoneTwice(h.display)
            /\ h.shown = [j \in 1..Len(shown) |->
                            <<shown[j], verses(h.surah, str(h.ayah))[shown[j]]>>]

\* with Broad Search and Broad Results a hit displays a matching
\* translation that is not selected
C13_Witness ==
    /\ KeywordSearched
    /\ events > 0
    /\ broad_search_var /\ broad_results_var
    /\ \E i \in 1..Len(result_text) :
         /\ Len(result_text[i].display) > Len(selected)
         /\ Len(result_text[i].shown) > Len(selected)

\* with Broad Search and without Broad Results a verse is a hit through an
\* unselected translation and displays the selected translations only
C13_BroadSearchOnly ==
    /\ KeywordSearched
    /\ broad_search_var /\ ~broad_results_var
    /\ \E i \in 1..Len(result_text) :
         /\ ~MatchesIn(translation_vars, HitVerse(result_text[i]))
         /\ result_text[i].display = selected

\* (surah, ayah) of hit g is below that of hit h, numerically
Below(g, h) ==
    \/ int(g.surah) < int(h.surah)
    \/ int(g.surah) = int(h.surah) /\ g.ayah < h.ayah

\* C14: the hits of a search are in strictly ascending (surah, ayah) order,
\* numerically: no verse is a hit twice and no hit comes before a hit of a
\* smaller (surah, ayah).
C14_Ascending ==
    (Searched /\ found.error = None) =>
      \A i, j \in 1..Len(result_text) :
        i < j => Below(result_text[i], result_text[j])

\* a search handled as an event has hits in several surahs and several hits
\* in one surah
C14_Witness ==
    /\ Searched
    /\ events > 0
    /\ found.error = None
    /\ \E i, j \in 1..Len(result_text) : result_text[i].surah # result_text[j].surah
    /\ \E i, j \in 1..Len(result_text) :
         /\ result_text[i].surah = result_text[j].surah
         /\ result_text[i].ayah # result_text[j].ayah

\* the translations whose texts the keyword is matched against
CheckSet == IF broad_search_var THEN AllTranslations ELSE translation_vars

\* the verses of the searched range that match the keyword, in loop order
MatchedVerses ==
    LET matched(k) == MatchesIn(CheckSet, k)
    IN  SelectSeq(RangeVerses, matched)

\* C15: after a search for a keyword over a range that is not a single verse,
\* search_results lists exactly the verses of the range that matched the
\* keyword, in ascending order; after a search without keyword or of a
\* single verse, search_results is None, whatever it was before.
C15_MatchList ==
    (Searched /\ found.error = None) =>
      IF KeywordSearched
      THEN /\ search_results.list
           /\ \A m \in {MatchedVerses} :
                search_results.refs =
                  [i \in 1..Len(m) |-> RefOf(m[i][1], str(m[i][2]))]
      ELSE search_results = NoList

\* a keyword search over a range listed some, not all, verses of the range
C15_Witness ==
    /\ KeywordSearched
    /\ events > 0
    /\ search_results.list
    /\ Len(search_results.refs) > 1
    /\ Len(search_results.refs) < Len(RangeVerses)

\* ------------------------------------------------------------------------
\* Properties of the matcher (checked under SpecMatch)
\* ------------------------------------------------------------------------

\* the whitespace-separated tokens of the keyword
tokens == split(lower(strip(keyword_var)))

\* the words of t: its maximal runs of word characters
RECURSIVE Words(_)
Words(t) ==
    IF Len(t) = 0 THEN {}
    ELSE IF ~IsWordChar(t[1]) THEN Words(Tail(t))
    ELSE LET n == CHOOSE k \in 1..Len(t) :
                    /\ \A i \in 1..k : IsWordChar(t[i])
                    /\ k = Len(t) \/ ~IsWordChar(t[k + 1])
         IN  {SubSeq(t, 1, n)} \cup Words(SubSeq(t, n + 1, Len(t)))

\* the token, with its wildcards, matches a word of t from its first letter
PrefixOfWord(tok, t) == \E w \in Words(t) : MatchAt(Wildcards(tok), w, 1)

\* the token is made of letters, digits and underscores
IsPlain(tok) == \A i \in 1..Len(tok) : IsWordChar(tok[i])

\* the tokens joined by single spaces
RECURSIVE Join(_)
Join(toks) ==
    IF Len(toks) = 0 THEN <<>>
    ELSE IF Len(toks) = 1 THEN toks[1]
    ELSE toks[1] \o <<" ">> \o Join(Tail(toks))

Reverse(seq) == [i \in 1..Len(seq) |-> seq[Len(seq) + 1 - i]]

\* C16 as stated: a text satisfies an unquoted keyword if and only if every
\* token matches as a prefix of some word of the text.
C16_PrefixOfWord ==
    (satisfied # "pending" /\ ~IsPhrase(lower(strip(keyword_var)))) =>
      (satisfied = "True" <=>
         \A i \in 1..Len(tokens) : PrefixOfWord(tokens[i], verse_text))

\* C16 amended: a text satisfies an unquoted keyword if every token matches
\* as a prefix of some word of the text, and only then when the tokens are
\* made of letters, digits and underscores; a token with a wildcard can also
\* match across words and from the end of a word. The tokens may match
\* different words, and the keyword with its tokens in reverse order is
\* satisfied by the same texts.
C16_WordList ==
    (satisfied # "pending" /\ ~IsPhrase(lower(strip(keyword_var)))) =>
      /\ (\A i \in 1..Len(tokens) : PrefixOfWord(tokens[i], verse_text))
           => satisfied = "True"
      /\ (\A i \in 1..Len(tokens) : IsPlain(tokens[i])) =>
           (satisfied = "True" =>
              \A i \in 1..Len(tokens) : PrefixOfWord(tokens[i], verse_text))
      /\ satisfied = "True" <=> Matches(Join(Reverse(tokens)), verse_text)

\* two different tokens were matched by two different words of the text, the
\* second token by the first word, in another case of letters
C16_Witness ==
    /\ satisfied = "True"
    /\ tokens = <<(<<"a">>), (<<"b">>)>>
    /\ verse_text = <<"B", " ", "a">>

\* ------------------------------------------------------------------------
\* Properties of stepping (checked under SpecNavigate)
\* ------------------------------------------------------------------------

\* the i-th verse of the trail was returned by op applied to the verse before
Stepped(i, op) == i > 1 /\ i <= Len(trail) /\ trail[i].op = op

InCorpus(k) == k # NoVerse /\ in_surahs(k[1]) /\ in_verses(k[1], k[2])

\* C17: get_next_verse returns (surah, ayah + 1) when ayah is below the verse
\* count of the surah, otherwise (surah + 1, 1) when surah is below 114,
\* otherwise None; from a verse of the corpus it returns None or a verse of
\* the corpus.
C17_Next ==
    \A i \in 1..Len(trail) :
      Stepped(i, "next") =>
        LET surah == trail[i - 1].at[1]
            ayah == trail[i - 1].at[2]
        IN  /\ trail[i].at =
                 IF int(ayah) < VerseCount(surah)
                 THEN <<surah, str(int(ayah) + 1)>>
                 ELSE IF int(surah) < 114 THEN <<str(int(surah) + 1), <<"1">>>>
                 ELSE NoVerse
            /\ InCorpus(trail[i - 1].at) =>
                 (trail[i].at = NoVerse \/ InCorpus(trail[i].at))

\* get_next_verse stepped from the last verse of a surah of several verses
\* to the first verse of the next surah
C17_Witness ==
    /\ Stepped(2, "next")
    /\ InCorpus(trail[1].at)
    /\ trail[1].at[2] # <<"1">>
    /\ trail[2].at # NoVerse
    /\ trail[2].at[1] # trail[1].at[1]

\* the first and the last verse of the corpus
FirstVerse == <<(<<"1">>), (<<"1">>)>>

LastVerse == <<str(114), str(HighestVerse(str(114)))>>

\* C18: from every verse x of the corpus, get_previous_verse undoes
\* get_next_verse unless x is the last verse, get_next_verse undoes
\* get_previous_verse unless x is (1,1); get_previous_verse returns None only
\* at (1,1) and get_next_verse only at (114, last(114)).
C18_Inverses ==
    (Len(trail) > 1 /\ InCorpus(trail[1].at)) =>
      /\ (Stepped(2, "next") /\ trail[1].at # LastVerse /\ Stepped(3, "previous"))
           => trail[3].at = trail[1].at
      /\ (Stepped(2, "previous") /\ trail[1].at # FirstVerse /\ Stepped(3, "next"))
           => trail[3].at = trail[1].at
      /\ (Stepped(2, "previous") /\ trail[2].at = NoVerse) => trail[1].at = FirstVerse
      /\ (Stepped(2, "next") /\ trail[2].at = NoVerse) => trail[1].at = LastVerse

\* the translations of the translation data
Linguistic == AllTranslations \ {"User Notes"}

\* C24: "User Notes" takes no part in keyword matching: every hit of a
\* keyword search over a range has the text of a translation other than
\* "User Notes" that satisfies the matcher, with and without Broad Search,
\* and "User Notes" is not among the matching translations of a hit
C24_NotesNotMatched ==
    KeywordSearched =>
      \A i \in 1..Len(result_text) :
        \A h \in {result_text[i]} :
          /\ MatchesIn(Linguistic, HitVerse(h))
          /\ \A j \in 1..Len(h.matching) : h.matching[j] # "User Notes"

\* while notes.xml does not exist, or "User Notes" is neither selected nor
\* reached by Broad Search, only the translation data is matched
C24_WithoutNotes ==
    (KeywordSearched /\ "User Notes" \notin CheckSet) =>
      \A i \in 1..Len(result_text) :
        MatchesIn(Linguistic \cap CheckSet, HitVerse(result_text[i]))

\* ------------------------------------------------------------------------
\* Properties of the notes (checked under SpecNotes)
\* ------------------------------------------------------------------------

\* the step is a launch that follows a session that saved notes
Reloaded == event' = "on_data_loaded" /\ DOMAIN notes # {}

\* the verses that the notes of the session are attached to
NotedVerses == {SplitRef(ref) : ref \in DOMAIN notes}

\* the launch merges exactly the notes of the session that was closed
SameNotes ==
    /\ NoteKeys' = NotedVerses
    /\ \A ref \in DOMAIN notes :
         \A k \in {SplitRef(ref)}, note \in {notes[ref]} :
           /\ in_verses(k[1], k[2])'
           /\ "User Notes" \in DOMAIN (verses(k[1], k[2])')
           /\ (verses(k[1], k[2])')["User Notes"] = note
    /\ notes' = notes

\* C19: the notes that a session saved when its window was closed are the
\* notes of the next launch: load_notes merges each of them, with the
\* identical text, as "User Notes" of exactly its verse, and
\* load_notes_into_memory yields the same notes
C19_RoundTrip == [][Reloaded => SameNotes]_vars

\* a note holds a carriage return
HasCarriageReturn ==
    \E ref \in DOMAIN notes : \E i \in 1..Len(notes[ref]) : notes[ref][i] = "\r"

\* the notes without a carriage return are the notes of the next launch
C19_OtherTexts == [][(Reloaded /\ ~HasCarriageReturn) => SameNotes]_vars

\* a launch has merged a note whose text had to be escaped
C19_Reloaded ==
    /\ event = "on_data_loaded"
    /\ events > 0
    /\ \E k \in NoteKeys : \E i \in 1..Len(dl_notes.notes[k]) : dl_notes.notes[k][i] = "<"

\* the verses that notes.xml holds a note for
PersistedVerses == IF notes_file.exists THEN DOMAIN notes_file.notes ELSE {}

\* the last event was a handler that stores the note of the pane
NoteStored == event \in {"show_verses", "toggle_notes", "destroy"}

\* C20: after a handler has stored the note of the pane, notes.xml holds no
\* note that the session does not have: a note that was deleted by emptying
\* its text is absent from notes.xml, also when it was the only note
C20_DeletedIsAbsent == NoteStored => PersistedVerses \subseteq NotedVerses

\* a note of the session can not be written to notes.xml
Unwritable == save_notes_raises(State)

\* while the session has a note, and every note can be written, notes.xml
\* holds exactly the notes of the session
C20_WhileNotesRemain ==
    (NoteStored /\ NotedVerses # {} /\ ~Unwritable) => PersistedVerses = NotedVerses

\* the last event was a show_verses that ran through its search: the window
\* exists, the call was made by a handler and save_notes did not raise
SearchDone == event \in {"show_verses", "toggle_notes"} /\ ~Unwritable

\* the "User Notes" text that the hit h shows, <<>> when it shows none
NoteShown(h) ==
    LET is_note(pair) == pair[1] = "User Notes"
        pairs == SelectSeq(h.shown, is_note)
    IN  IF Len(pairs) = 0 THEN <<>> ELSE pairs[1][2]

\* the note that the session has for the verse of the hit h, <<>> for none
NoteOf(h) ==
    LET ref == RefOf(h.surah, str(h.ayah))
    IN  IF ref \in DOMAIN notes THEN notes[ref] ELSE <<>>

\* C21: a search that follows the write of a note shows the note as it was
\* written: every hit whose display set contains "User Notes" shows the text
\* that the session has for its verse, and no note when it was deleted
C21_WrittenNoteShown ==
    SearchDone =>
      \A i \in 1..Len(result_text) :
        \A h \in {result_text[i]} :
          (\E j \in 1..Len(h.display) : h.display[j] = "User Notes")
            => NoteShown(h) = NoteOf(h)

\* at the launch and until a note is changed, the hits show the notes
C21_UnchangedNotes ==
    (SearchDone /\ notes = LoadedNotes) =>
      \A i \in 1..Len(result_text) :
        \A h \in {result_text[i]} :
          (\E j \in 1..Len(h.display) : h.display[j] = "User Notes")
            => NoteShown(h) = NoteOf(h)

\* ------------------------------------------------------------------------
\* Properties of notes mode (checked under SpecMode)
\* ------------------------------------------------------------------------

\* the step enables the notes
Enabling == event' = "toggle_notes" /\ notes_var'

\* the step submits the reference field while the notes are active
Resubmitting == event' = "show_verses" /\ notes_var

\* the reference field holds a range of several verses before the step
RangeSubmitted == found.error = None /\ ~IsSingleVerse(found)

\* the start verse of the range in the reference field, as a reference
StartOfRange == RefOf(found.surah_start, found.start_ayah)

ReachesSearch ==
    /\ translation_vars # {}
    /\ Enabling \/ ~notes_var \/ Len(strip(keyword_var')) = 0
    /\ ~Unwritable'

\* the last single verse that was shown, 1.1 when there is none
LastSingleVerse == IF Len(last_ref) > 0 THEN last_ref ELSE <<"1", ".", "1">>

\* the last search left a match list with an entry
HasMatchList == search_results.list /\ Len(search_results.refs) > 0

CallsShowVerses == events' # events /\ event' \in {"on_data_loaded", "show_verses"}

\* load_data has ended: it returned, it caught an exception or it was left
\* by SystemExit
ThreadEnded == load.thread \in {"finished", "failed", "exited"}

\* C23: the corpus is built once, by the load_data thread: no handler that
\* resolves or searches runs before parse_xml and load_notes have returned,
\* none runs at all when load_data failed, and once load_data has ended it
\* is not run again and the corpus does not change
C23_CorpusFirst ==
    [][/\ CallsShowVerses => load.thread = "finished"
       /\ ThreadEnded => (load'.thread = load.thread /\ dl_notes' = dl_notes)
       /\ dl_notes' # dl_notes => events' = events]_vars

\* a reference was submitted after load_data had merged notes into the corpus
C23_Witness ==
    /\ event = "show_verses"
    /\ events > 1
    /\ load = Started
    /\ dl_notes.loaded

\* C25: the text of the notes pane is saved only under the verse it was
\* loaded for. In the sessions of SpecMode the text of the pane is never
\* edited, so that saving it under its own verse changes no note: whatever
\* the reference field is given, and however the notes are enabled and
\* disabled and the verses stepped through, the notes stay as they were loaded
C25_OwnVerseOnly == notes = LoadedNotes

\* a note is changed by no step but the enabling of the notes after a single
\* verse was shown: the pane is loaded for the verse of the reference field
\* and saved under last_ref
C25_EnablingOnly == [][notes' # notes => (Enabling /\ Len(last_ref) > 0)]_vars

\* the verses that the hits of the result pane name, in order
HitRefs == [i \in 1..Len(result_text) |->
              RefOf(result_text[i].surah, str(result_text[i].ayah))]

\* C26: after a keyword search over a range, the match list and the hits of
\* the result pane name the same verses in the same order
C26_ListIsHits ==
    (KeywordSearched /\ found.error = None) =>
      /\ search_results.list
      /\ search_results.refs = HitRefs

\* while Broad Search is off, every verse of the match list is a hit
C26_NarrowSearch ==
    (KeywordSearched /\ found.error = None /\ ~broad_search_var) =>
      /\ search_results.list
      /\ search_results.refs = HitRefs

\* the step is a click on "<" or ">"
Stepping == event' \in {"go_previous", "go_next"}

\* the click reaches show_verses: the reference field parses, and a single
\* verse has a verse before it ("<") or after it (">")
StepShows ==
    \A r \in {parse_reference(last_reference)} :
      /\ r.error = None
      /\ IsSingleVerse(r) =>
           (IF event' = "go_previous"
            THEN get_previous_verse(r.surah_start, r.start_ayah)
            ELSE get_next_verse(r.surah_start, r.start_ayah)) # NoVerse

\* the step calls show_verses, and the call runs to completion
ShowCompleted ==
    /\ event' = "show_verses" \/ Enabling \/ (Stepping /\ StepShows)
    /\ ReachesSearch

\* the reference field names one verse, and last_ref is that verse
SingleVerseShown ==
    \A r \in {resolve(last_reference)} :
      /\ r.error = None
      /\ IsSingleVerse(r)
      /\ last_ref = RefOf(r.surah_start, r.start_ayah)

\* C27: whenever the notes are active after a show_verses call that ran to
\* completion, the reference is a single verse and last_ref is that verse
C27_SingleInNotesMode ==
    [][(ShowCompleted /\ notes_var') => SingleVerseShown']_vars

\* submitting the field and enabling the notes leave a single verse
C27_Submissions ==
    [][(ShowCompleted /\ notes_var' /\ ~Stepping) => SingleVerseShown']_vars

\* so does a step from a reference whose end verse is not written as verse 0
C27_Steps ==
    [][(ShowCompleted /\ notes_var' /\ Stepping /\
        parse_reference(last_reference).end_ayah # <<"0">> /\
        parse_reference(last_reference).start_ayah # <<"0">>)
         => SingleVerseShown']_vars

\* max(int(ayah) for ayah in surahs[s]) = ayah_counts[s] in every surah, and
\* the overlay names no surah and no verse that the translation data lacks
CorpusAgrees ==
    /\ \A n \in 1..LastSurah :
         \A s \in {str(n)} :
           /\ \A a \in surahs(s) : int(a) <= ayah_counts(s)
           /\ \E a \in surahs(s) : int(a) = ayah_counts(s)
    /\ \A k \in NoteKeys : IsXmlAyah(k[1], k[2])

\* C28: after a launch has merged the notes that the session before it
\* wrote, the last verse of every surah is its verse count, and the merge
\* has added no surah and no verse that the translation data lacks
C28_MergeKeepsCounts ==
    [][(event' = "on_data_loaded" /\ CorpusAgrees) => CorpusAgrees']_vars

\* ------------------------------------------------------------------------
\* Properties of the recovery from a reference that fails (SpecMode)
\* ------------------------------------------------------------------------

\* the step calls show_verses with a reference field that fails resolution
FailingSubmitted == event' = "show_verses" /\ found.error # None

\* the error dialogs that the step has shown: one per failed resolution
ErrorsShown ==
    {i \in 1..Len(messagebox') :
       messagebox'[i] \in {InvalidReference, ChapterNotFound}}

C29_Stopped ==
    [][(FailingSubmitted /\ ~ReachesSearch) =>
         /\ ErrorsShown = {}
         /\ last_reference' = last_reference]_vars

ClosingFailed == event = "on_closing"

\* C30: closing the window completes in every state of the application,
\* also while load_data runs and after it has failed: on_closing saves the
\* notes and the preferences and destroys the window
C30_ClosingCompletes == ~ClosingFailed

\* on_closing fails only before on_data_loaded has built the widgets, or
\* when a note can not be written to notes.xml
C30_FailsBeforeGui == ClosingFailed => (load.widgets # "gui" \/ Unwritable)

====
